---- MODULE Spec2Model ----
(***************************************************************************)
(* A model of two parts of the TAE storage engine:                         *)
(*   - the write-ahead log replayer (logstore/store/replayer.go): the scan *)
(*     of the log files entry by entry (replayHandler, onReplayEntry) and  *)
(*     the apply phase (Apply);                                            *)
(*   - the inode and extent manager of the segment layout                  *)
(*     (layout/segment/inode.go, log.go): Append, Update with extent       *)
(*     repair, the readers, and the inode log.                             *)
(* The two parts share no state; each has its own specification.           *)
(***************************************************************************)
EXTENDS Integers, Sequences, FiniteSets, TLC

VARIABLES
    \* ---- the log on disk and its producer
    files,      \* the log files as written before the restart, in version order
    fsize,      \* the current size in bytes of each file (Truncate changes it)
    nextLsn,    \* the producer's next group-lsn of every group
    \* ---- the replay driver
    pc,         \* "write", "replay", "apply", "done", "panic", "fatal"
    fidx,       \* the file being replayed
    fpos,       \* the read offset in that file
    \* ---- the replayer struct
    r,
    \* ---- the position of Apply's loops and the callback's record
    ci,         \* checkpoints already passed to the callback
    ei,         \* index in r.entrys of the entry Apply is at
    ui,         \* fragments of that entry already passed to the callback
    applied,    \* the invocations of the apply callback, in order
    failedAt,   \* the index in applied of the invocation that returned an error, or 0
    runs,       \* the invocations of the earlier replays of this log, one sequence each
    \* ---- one inode of a segment, its log and the goroutines that use it
    snode,      \* the Inode: size, originSize, extents (arr, len), logExtents, state, algo
    alloc,      \* the bytes of the data region that are allocated
    logAlloc,   \* the extents of the log region that are allocated
    logRecords, \* the inode images written to the log region, in order
    ops,        \* the Append and Update operations done
    ipc,        \* "run", or "panic" after a goroutine panicked
    logger,     \* the goroutine in Log.Append / Log.RemoveInode (prev: the log extent
                \* when RemoveInode began; removed: RemoveInode has returned nil,
                \* after rops operations; ret: what the last Log.Append
                \* returned; full: the allocator could not satisfy it; before:
                \* the inode's log extent and the records written when it began;
                \* img: the size of the inode when the extents were copied)
    reader,     \* the goroutine in BlockFile.Read (at: the operations done when it began)
    got,        \* the last call of GetFileSize / GetOriginSize and what it returned
    hist,       \* the extent lists the inode has had between operations
    last,       \* the last Append or Update: its arguments, the list before it, what it
                \* returned (free, err), or that it panicked
    \* ---- one catalog schema and its users
    schema,     \* the Schema
    finalized,  \* the last operation on the schema is a Finalize that returned nil
    sres,       \* the last operation on the schema and the error it returned
    cloned,     \* what the last Clone returned: <<the new schema>>, or <<>>
    \* ---- one file of a column block (data, updates or deletes) and its users
    df,         \* the dataFile: kind, file (a BlockFile is attached), buf, stat
    written,    \* the buffers passed to dataFile.Write, in order
    dres        \* the last call on the dataFile and what it returned

rvars == <<files, fsize, nextLsn, pc, fidx, fpos, r, ci, ei, ui, applied, failedAt, runs>>

ivars == <<snode, alloc, logAlloc, logRecords, ops, ipc, logger, reader, got, hist, last>>

svars == <<schema, finalized, sres, cloned>>

dvars == <<df, written, dres>>

vars == <<rvars, ivars, svars, dvars>>

\* ------------------------------------------------------------------ bounds

\* The number of entries the producer writes before the restart.
MaxEntries == 3

\* The groups and transaction ids of the entries written.
Groups == {1, 2}
TxnIds == {1, 2}

\* The number of log files.
MaxFiles == 2

\* ------------------------------------------------------------- helpers

Min(a, b) == IF a < b THEN a ELSE b

Range(s) == {s[i] : i \in 1..Len(s)}

RECURSIVE FlattenSeq(_)
FlattenSeq(ss) == IF ss = <<>> THEN <<>> ELSE Head(ss) \o FlattenSeq(Tail(ss))

\* ------------------------------------------------------- entries on disk

\* entry: [meta | info-buf | payload]; sizes in bytes.
MetaSize == 2
InfoSize == 1
PayloadSize == 2

TotalSizeExpectMeta == InfoSize + PayloadSize
TotalSize == MetaSize + TotalSizeExpectMeta

\* How many bytes of the last entry a crash may cut off: none, or some of its
\* info buffer and payload.
TearCuts == 0..TotalSizeExpectMeta

NoInfo == [nil |-> TRUE, Group |-> 0, GroupLSN |-> 0]

Interval(a, b) == [Start |-> a, End |-> b]

\* The checkpoint declarations the producer writes: lists of (group, ranges).
CkpDecls ==
    { << [Group |-> 1, Ranges |-> <<Interval(1, 1)>>] >>,
      << [Group |-> 1, Ranges |-> <<Interval(2, 3)>>] >> }

\* The participant lists of the uncommitted fragments.
UncommitLists == { <<1>>, <<1, 2>> }

Shape(t, g, tid, us, cs) ==
    [typ |-> t, group |-> g, tid |-> tid, uncommits |-> us, checkpoints |-> cs]

EntryShapes ==
    {Shape("Flush", 1, 0, <<>>, <<>>)}
    \cup {Shape("Commit", g, 0, <<>>, <<>>) : g \in Groups}
    \cup {Shape("Txn", g, t, <<>>, <<>>) : g \in Groups, t \in TxnIds}
    \cup {Shape("Uncommitted", us[1], t, us, <<>>) : us \in UncommitLists, t \in TxnIds}
    \cup {Shape("Checkpoint", g, 0, <<>>, cs) : g \in Groups, cs \in CkpDecls}

\* The shapes of the specification of torn files: the entry kind plays no part
\* in replayHandler's reads and truncations.
PlainShapes ==
    {Shape("Commit", 1, 0, <<>>, <<>>), Shape("Txn", 1, 1, <<>>, <<>>)}

\* All entries written, over all files, in file order.
Log == FlattenSeq([i \in 1..Len(files) |-> files[i].entries])

\* ------------------------------------------------------------ the producer

\* The store appends an entry to the newest file; the group-lsn is the next of
\* its group and the payload is the entry's own (they are told apart by it).
AppendEntry(sh) ==
    /\ pc = "write"
    /\ Len(Log) < MaxEntries
    /\ LET n == Len(files)
           e == [typ |-> sh.typ, group |-> sh.group, lsn |-> nextLsn[sh.group],
                 tid |-> sh.tid, uncommits |-> sh.uncommits,
                 checkpoints |-> sh.checkpoints, payload |-> Len(Log) + 1]
       IN /\ files' = [files EXCEPT ![n].entries = Append(@, e)]
          /\ fsize' = [fsize EXCEPT ![n] = @ + TotalSize]
          /\ nextLsn' = [nextLsn EXCEPT ![sh.group] = @ + 1]
    /\ UNCHANGED <<pc, fidx, fpos, r, ci, ei, ui, applied, failedAt>>
    /\ UNCHANGED <<ivars, svars, dvars, runs>>

\* ------------------------------------------------------------ the replayer

newReplayer ==
    [version |-> 0,
     pos |-> 0,
     uncommit |-> [g \in Groups |-> [t \in TxnIds |-> <<>>]],
     entrys |-> <<>>,
     checkpointrange |-> [g \in Groups |-> [ok |-> FALSE, lsns |-> {}]],
     checkpoints |-> <<>>,
     addrs |-> {},
     groupLSN |-> [g \in Groups |-> 0],
     vinfoAddrs |-> {}]

updateVinfoAddrs(rr, groupId, lsn, offset) ==
    [rr EXCEPT !.vinfoAddrs =
        {a \in @ : ~(a[1] = groupId /\ a[2] = lsn)} \cup {<<groupId, lsn, offset>>}]

updateaddrs(rr, groupId, version, lsn) ==
    [rr EXCEPT !.addrs = @ \cup {<<groupId, version, lsn>>}]

updateGroupLSN(rr, groupId, lsn) ==
    IF lsn > rr.groupLSN[groupId]
    THEN [rr EXCEPT !.groupLSN[groupId] = lsn]
    ELSE rr

\* common.ClosedIntervals: the lsns a list of closed intervals covers.
RECURSIVE Covered(_)
Covered(ranges) ==
    IF ranges = <<>> THEN {}
    ELSE (Head(ranges).Start .. Head(ranges).End) \cup Covered(Tail(ranges))

NewClosedIntervalsByIntervals(ranges) == [ok |-> TRUE, lsns |-> Covered(ranges)]

TryMerge(interval, ranges) == [ok |-> TRUE, lsns |-> interval.lsns \cup Covered(ranges)]

ContainsInterval(interval, lsn) == lsn \in interval.lsns

\* The zero value of a replayEntry.
ZeroReplayEntry ==
    [entryType |-> "Invalid", group |-> 0, commitId |-> 0, tid |-> 0,
     payload |-> 0, info |-> NoInfo]


\* r.entrys = append(r.entrys, replayEty)
PrependEntrys(entrys, replayEty) == <<replayEty>> \o entrys
AppendEntrys(entrys, replayEty) == Append(entrys, replayEty)

\* r.checkpoints = append(r.checkpoints, replayEty)
PrependCheckpoints(checkpoints, replayEty) == <<replayEty>> \o checkpoints
AppendCheckpoints(checkpoints, replayEty) == Append(checkpoints, replayEty)

\* The loop over info.Checkpoints of the ETCheckpoint case.
RECURSIVE mergeCheckpointRanges(_, _)
mergeCheckpointRanges(cr, ckps) ==
    IF ckps = <<>> THEN cr
    ELSE LET ckp == Head(ckps)
             interval == cr[ckp.Group]
             merged == IF ~interval.ok
                       THEN NewClosedIntervalsByIntervals(ckp.Ranges)
                       ELSE TryMerge(interval, ckp.Ranges)
         IN mergeCheckpointRanges([cr EXCEPT ![ckp.Group] = merged], Tail(ckps))

\* The loop over info.Uncommits of the ETUncommitted case: the payload is
\* buffered under (tinfo.Group, info.TxnId) for every participant tinfo.
RECURSIVE bufferUncommitted(_, _, _, _)
bufferUncommitted(uncommit, tinfos, txnId, replayEty) ==
    IF tinfos = <<>> THEN uncommit
    ELSE bufferUncommitted(
            [uncommit EXCEPT ![Head(tinfos)][txnId] = Append(@, replayEty)],
            Tail(tinfos), txnId, replayEty)

\* The bookkeeping every case but ETFlush does first.
recordEntry(rr, e) ==
    updateGroupLSN(
        updateaddrs(updateVinfoAddrs(rr, e.group, e.lsn, rr.pos),
                    e.group, rr.version, e.lsn),
        e.group, e.lsn)

onReplayEntry(rr, e) ==
    CASE e.typ = "Flush" ->
            updateaddrs(updateVinfoAddrs(rr, e.group, e.lsn, rr.pos),
                        e.group, rr.version, e.lsn)
      [] e.typ = "Checkpoint" ->
            LET r1 == recordEntry(rr, e)
                replayEty == [ZeroReplayEntry EXCEPT
                                !.entryType = e.typ,
                                !.payload = e.payload,
                                !.info = [nil |-> FALSE, Group |-> e.group,
                                          GroupLSN |-> e.lsn]]
            IN [r1 EXCEPT
                  !.checkpoints = AppendCheckpoints(@, replayEty),
                  !.checkpointrange = mergeCheckpointRanges(@, e.checkpoints)]
      [] e.typ = "Uncommitted" ->
            LET r1 == recordEntry(rr, e)
                replayEty == [ZeroReplayEntry EXCEPT !.payload = e.payload]
            IN [r1 EXCEPT
                  !.uncommit = bufferUncommitted(@, e.uncommits, e.tid, replayEty)]
      [] e.typ = "Txn" ->
            LET r1 == recordEntry(rr, e)
                replayEty == [ZeroReplayEntry EXCEPT
                                !.entryType = e.typ,
                                !.group = e.group,
                                !.commitId = e.lsn,
                                !.tid = e.tid,
                                !.payload = e.payload]
            IN [r1 EXCEPT !.entrys = AppendEntrys(@, replayEty)]
      [] OTHER ->
            LET r1 == recordEntry(rr, e)
                replayEty == [ZeroReplayEntry EXCEPT
                                !.entryType = e.typ,
                                !.group = e.group,
                                !.commitId = e.lsn,
                                !.payload = e.payload]
            IN [r1 EXCEPT !.entrys = AppendEntrys(@, replayEty)]

\* entry.ReadFrom on a file with `rem` bytes left after the meta header: the
\* info buffer, then the payload; a read that finds no byte left returns EOF,
\* a short read returns the bytes it got.
ReadFrom(rem) ==
    IF rem <= InfoSize
    THEN [n |-> 0, eof |-> TRUE]
    ELSE [n |-> Min(rem, TotalSizeExpectMeta), eof |-> FALSE]

\* What one call of replayHandler on file f (of size `size`, read up to offset
\* `off`) does: the replayer after it, the size it truncates the file to, and
\* what it returns: "nil", "EOF", "error" (a fatal error) or "panic".
\* truncErr: vfile.Truncate returns an error. current: the position that
\* vfile.GetState() gives.
replayHandlerAt(rr, f, size, current, off, truncErr) ==
    LET r0 == IF f.version # rr.version THEN [rr EXCEPT !.pos = 0] ELSE rr
        rem == size - off
        rd == ReadFrom(rem - MetaSize)
        e == f.entries[(off \div TotalSize) + 1]
    IN IF rem = 0 \/ rd.eof
       THEN \* the meta header or the entry reads EOF: truncate to the cursor
            IF truncErr
            THEN [r |-> r0, size |-> size, off |-> size, ret |-> "panic"]
            ELSE [r |-> r0, size |-> r0.pos, off |-> size, ret |-> "EOF"]
       ELSE IF rd.n # TotalSizeExpectMeta
       THEN IF current = r0.pos + rd.n
            THEN IF truncErr
                 THEN [r |-> r0, size |-> size, off |-> size, ret |-> "nil"]
                 ELSE [r |-> r0, size |-> current, off |-> size, ret |-> "EOF"]
            ELSE [r |-> r0, size |-> size, off |-> size, ret |-> "error"]
       ELSE [r |-> [onReplayEntry(r0, e) EXCEPT !.pos = @ + TotalSize],
             size |-> size, off |-> off + TotalSize, ret |-> "nil"]

\* replayHandler on a file whose state position is its durable end.
replayHandler(rr, f, size, off, truncErr) ==
    replayHandlerAt(rr, f, size, size, off, truncErr)


\* ------------------------------------------------------ the replay driver

\* The restart: the files are replayed from the first one. `cut` bytes of the
\* last entry written never reached the disk: with cut = 0 the entry is whole,
\* otherwise the file ends inside its info buffer or payload (`torn` bytes of
\* it are on disk) and the entry is not among the complete ones.
Crash(cut) ==
    /\ pc = "write"
    /\ LET n == Len(files)
           es == files[n].entries
       IN IF cut = 0
          THEN UNCHANGED <<files, fsize>>
          ELSE /\ es # <<>>
               /\ files' = [files EXCEPT ![n].entries = SubSeq(es, 1, Len(es) - 1),
                                         ![n].torn = TotalSize - cut]
               /\ fsize' = [fsize EXCEPT ![n] = @ - cut]
    /\ pc' = "replay"
    /\ UNCHANGED <<nextLsn, fidx, fpos, r, ci, ei, ui, applied, failedAt>>
    /\ UNCHANGED <<ivars, svars, dvars, runs>>

\* The replays of one log.
MaxReplays == 2

\* The store starts a new file, of the next version.
Rotate ==
    /\ pc = "write"
    /\ Len(files) < MaxFiles
    /\ files[Len(files)].entries # <<>>
    /\ files' = Append(files, [version |-> files[Len(files)].version + 1,
                               entries |-> <<>>, torn |-> 0])
    /\ fsize' = Append(fsize, 0)
    /\ UNCHANGED <<nextLsn, pc, fidx, fpos, r, ci, ei, ui, applied, failedAt>>
    /\ UNCHANGED <<ivars, svars, dvars, runs>>

\* One call of replayHandler by the loop over the files: on EOF the loop goes
\* on with the next file, and Apply follows the last one; an error ends the
\* replay without Apply.
ReplayHandlerAt(current, truncErr) ==
    /\ pc = "replay"
    /\ LET h == replayHandlerAt(r, files[fidx], fsize[fidx], current, fpos, truncErr)
       IN /\ r' = h.r
          /\ fsize' = [fsize EXCEPT ![fidx] = h.size]
          /\ IF h.ret = "nil"
             THEN /\ fpos' = h.off
                  /\ UNCHANGED <<pc, fidx>>
             ELSE IF h.ret = "EOF"
             THEN IF fidx < Len(files)
                  THEN /\ fidx' = fidx + 1
                       /\ fpos' = 0
                       /\ UNCHANGED pc
                  ELSE /\ pc' = "apply"
                       /\ UNCHANGED <<fidx, fpos>>
             ELSE /\ pc' = (IF h.ret = "panic" THEN "panic" ELSE "fatal")
                  /\ UNCHANGED <<fidx, fpos>>
    /\ UNCHANGED <<files, nextLsn, ci, ei, ui, applied, failedAt>>
    /\ UNCHANGED <<ivars, svars, dvars, runs>>

ReplayHandler(truncErr) == ReplayHandlerAt(fsize[fidx], truncErr)

\* ------------------------------------------------------------------- Apply

\* The test of Apply's second loop that makes it `continue`.
NeverSkipped(rr, e) == FALSE
Skipped(rr, e) ==
    LET interval == rr.checkpointrange[e.group]
    IN interval.ok /\ ContainsInterval(interval, e.commitId)

\* The buffered fragments Apply passes to the callback before entry e.
FragmentsOfGroup(rr, e) ==
    IF e.entryType = "Txn" /\ e.tid \in TxnIds
    THEN FlattenSeq([i \in 1..Cardinality(TxnIds) |-> rr.uncommit[e.group][i]])
    ELSE <<>>
Fragments(rr, e) ==
    IF e.entryType = "Txn" /\ e.tid \in TxnIds
    THEN rr.uncommit[e.group][e.tid]
    ELSE <<>>

\* The first entry at or after index `from` that Apply does not skip.
RECURSIVE NextEntry(_, _)
NextEntry(rr, from) ==
    IF from > Len(rr.entrys) THEN from
    ELSE IF Skipped(rr, rr.entrys[from]) THEN NextEntry(rr, from + 1)
    ELSE from

\* r.applyEntry(e.group, e.commitId, e.payload, e.entryType, info)
Invocation(e, info) ==
    [group |-> e.group, commitId |-> e.commitId, payload |-> e.payload,
     entryType |-> e.entryType, info |-> info]

\* Apply is in its first loop, over r.checkpoints, with c of them applied.
\* (CheckpointsLast: the loop over r.entrys runs before it.)
CheckpointsLast(rr, c) == c < Len(rr.checkpoints) /\ NextEntry(rr, ei) > Len(rr.entrys)
InCheckpoints(rr, c) == c < Len(rr.checkpoints)

\* The next invocation of the callback from Apply's position, and the
\* position after it.
ApplyNext ==
    IF InCheckpoints(r, ci)
    THEN [has |-> TRUE,
          call |-> Invocation(r.checkpoints[ci + 1], r.checkpoints[ci + 1].info),
          at |-> ei, ci |-> ci + 1, ei |-> ei, ui |-> ui]
    ELSE LET ne == NextEntry(r, ei)
         IN IF ne > Len(r.entrys)
            THEN [has |-> FALSE, call |-> Invocation(ZeroReplayEntry, NoInfo),
                  at |-> ne, ci |-> ci, ei |-> ne, ui |-> ui]
            ELSE LET e == r.entrys[ne]
                     frs == Fragments(r, e)
                 IN IF ui < Len(frs)
                    THEN [has |-> TRUE, call |-> Invocation(frs[ui + 1], NoInfo),
                          at |-> ne, ci |-> ci, ei |-> ne, ui |-> ui + 1]
                    ELSE [has |-> TRUE, call |-> Invocation(e, NoInfo),
                          at |-> ne, ci |-> ci, ei |-> ne + 1, ui |-> 0]

\* What Apply does when the callback has returned: panic(err) on an error.
IgnoreError(err) == "apply"
AfterCallback(err) == IF err THEN "panic" ELSE "apply"

\* One invocation of the apply callback by Apply; err: it returns an error.
ApplyCall(err) ==
    /\ pc = "apply"
    /\ ApplyNext.has
    /\ applied' = Append(applied, ApplyNext.call)
    /\ failedAt' = IF err /\ failedAt = 0 THEN Len(applied) + 1 ELSE failedAt
    /\ pc' = AfterCallback(err)
    /\ IF pc' = "apply"
       THEN /\ ci' = ApplyNext.ci
            /\ ei' = ApplyNext.ei
            /\ ui' = ApplyNext.ui
       ELSE /\ ei' = ApplyNext.at
            /\ UNCHANGED <<ci, ui>>
    /\ UNCHANGED <<files, fsize, nextLsn, fidx, fpos, r>>
    /\ UNCHANGED <<ivars, svars, dvars, runs>>

\* Apply returns: both loops are through.
ApplyReturn ==
    /\ pc = "apply"
    /\ ~ApplyNext.has
    /\ pc' = "done"
    /\ ei' = ApplyNext.ei
    /\ UNCHANGED <<files, fsize, nextLsn, fidx, fpos, r, ci, ui, applied, failedAt>>
    /\ UNCHANGED <<ivars, svars, dvars, runs>>

\* Another restart: the log files, as the replay before left them on disk,
\* are replayed once more into a fresh replayer.
ReplayAgain ==
    /\ pc = "done"
    /\ Len(runs) + 1 < MaxReplays
    /\ runs' = Append(runs, applied)
    /\ r' = newReplayer
    /\ pc' = "replay"
    /\ fidx' = 1
    /\ fpos' = 0
    /\ ci' = 0
    /\ ei' = 1
    /\ ui' = 0
    /\ applied' = <<>>
    /\ failedAt' = 0
    /\ UNCHANGED <<files, fsize, nextLsn>>
    /\ UNCHANGED <<ivars, svars, dvars>>

\* ================================================== the inode and its extents

\* segment.super.blockSize: the allocator's block size, in bytes.
BlockSize == 2

\* The sizes of the data region and of the log region, in bytes.
DataCapacity == 12
LogCapacity == 120

\* The compressed length of the data of one Append or the length of the data
\* of one Update is at most MaxData bytes.
MaxData == 3

\* The number of Append and Update operations on the inode while the log is
\* written along with them.
MaxLogOps == 2

\* The number of Append and Update operations on the inode.
MaxOps == 3

\* p2roundup(x, align): x rounded up to a multiple of align.
p2roundup(x, align) == ((x + align - 1) \div align) * align

\* The zero value of an Extent: {typ, offset, length, data: {offset, length}}.
ZeroExtent ==
    [typ |-> "APPEND", offset |-> 0, length |-> 0,
     data |-> [offset |-> 0, length |-> 0]]

\* Extent.End()
End(ext) == ext.offset + ext.length

\* A slice is (arr, len): the backing array, as long as the capacity, and the
\* length. The extent list a slice holds:
Elems(sl) == SubSeq(sl.arr, 1, sl.len)

Zeros(n) == [i \in 1..n |-> ZeroExtent]

\* append(arr[:len], vals...): in place when the capacity allows, otherwise
\* into a new array of twice the capacity (or of the length needed when that
\* is more); the array appended to is left as it was then.
GoAppend(arr, len, vals) ==
    LET needed == len + Len(vals)
        cap == Len(arr)
    IN IF needed <= cap
       THEN [arr |-> [i \in 1..cap |->
                        IF i > len /\ i <= needed THEN vals[i - len] ELSE arr[i]],
             len |-> needed, realloc |-> FALSE]
       ELSE LET newcap == IF needed > 2 * cap THEN needed ELSE 2 * cap
            IN [arr |-> SubSeq(arr, 1, len) \o vals \o Zeros(newcap - needed),
                len |-> needed, realloc |-> TRUE]

\* The result of an operation on the inode's slice: the slice after it, the
\* array the slice had before it as the operation leaves it (`orig`: a reader
\* that copied the slice header before still reads this array), what the
\* operation frees, and whether it panics.
SliceResult(arr, len, orig, free, panic) ==
    [arr |-> arr, len |-> len, orig |-> orig, free |-> free, panic |-> panic]

\* extentsInsert(extents, idx, vals)
extentsInsert(arr, len, idx, vals) ==
    IF idx > len
    THEN SliceResult(arr, len, arr, <<>>, TRUE)
    ELSE LET rear == SubSeq(arr, idx + 1, len)
             front == GoAppend(arr, idx, vals)
             all == GoAppend(front.arr, front.len, rear)
             orig == IF front.realloc THEN arr
                     ELSE IF all.realloc THEN front.arr
                     ELSE all.arr
         IN SliceResult(all.arr, all.len, orig, <<>>, FALSE)

\* The inner loop of extentsRemove for one value ext: `range *extents` runs
\* over the n0 elements the slice had when the loop began and reads the array
\* as it is then; a match at index i removes element i of the slice in place.
RECURSIVE removeOne(_, _, _, _, _)
removeOne(arr, len, n0, i, ext) ==
    IF i > n0 THEN SliceResult(arr, len, arr, <<>>, FALSE)
    ELSE IF arr[i].offset = ext.offset /\ arr[i].length = ext.length
    THEN IF i > len
         THEN SliceResult(arr, len, arr, <<>>, TRUE)
         ELSE removeOne([j \in 1..Len(arr) |->
                            IF j >= i /\ j < len THEN arr[j + 1] ELSE arr[j]],
                        len - 1, n0, i + 1, ext)
    ELSE removeOne(arr, len, n0, i + 1, ext)

\* extentsRemove(extents, vals)
RECURSIVE extentsRemove(_, _, _)
extentsRemove(arr, len, vals) ==
    IF vals = <<>> THEN SliceResult(arr, len, arr, <<>>, FALSE)
    ELSE LET one == removeOne(arr, len, len, 1, Head(vals))
         IN IF one.panic THEN one
            ELSE extentsRemove(one.arr, one.len, Tail(vals))

\* A walk that stops at the first extent's first byte whatever the offset.
walkNowhere(arr, len, num, fOffset) == [num |-> 0, fOffset |-> 0]

\* The first loop of repairExtent and of ReadExtent: the extent that holds
\* logical offset fOffset. num counts the extents passed.
RECURSIVE walkExtents(_, _, _, _)
walkExtents(arr, len, num, fOffset) ==
    IF num >= len THEN [num |-> num, fOffset |-> fOffset]
    ELSE IF fOffset >= arr[num + 1].length
    THEN walkExtents(arr, len, num + 1, fOffset - arr[num + 1].length)
    ELSE [num |-> num, fOffset |-> fOffset]

\* An Extent{offset, length} that loses its offset.
RangeAtZero(offset, length) == [ZeroExtent EXCEPT !.length = length]

\* Extent{offset: offset, length: length}
FreeRange(offset, length) == [ZeroExtent EXCEPT !.offset = offset, !.length = length]

\* The first xLen bytes of extent e.
freeFromStart(e, fOffset, xLen) == FreeRange(e.offset, xLen)

\* Extent{offset: e.offset + fOffset, length: xLen}: the bytes the update
\* replaces in the extent it begins in.
freeOfFirst(e, fOffset, xLen) == FreeRange(e.offset + fOffset, xLen)

\* An extent that loses its last n bytes.
shrinkBack(arr, idx, n) == [arr EXCEPT ![idx].length = @ - n]

\* e.offset += xLen; e.length -= xLen: the extent loses its first n bytes.
shrinkFront(arr, idx, n) ==
    [arr EXCEPT ![idx].offset = @ + n, ![idx].length = @ - n]

\* The loop of repairExtent that consumes `freeLength` bytes from extent num
\* on. c: the values fixed before the loop (num, fOffset, ext), idx counts
\* from 1.
RECURSIVE consumeExtents(_, _, _, _, _, _, _)
consumeExtents(arr, len, c, idx, freeLength, free, remove) ==
    IF freeLength = 0 \/ idx = len + 1
    THEN [arr |-> arr, free |-> free, remove |-> remove]
    ELSE IF idx = c.num + 1
    THEN LET a1 == [arr EXCEPT ![idx].length = c.fOffset]
             room == c.ext.length - c.fOffset
             xLen == IF room > freeLength THEN freeLength ELSE room
             f1 == Append(free, freeOfFirst(arr[idx], c.fOffset, xLen))
         IN IF freeLength - xLen = 0
            THEN [arr |-> a1, free |-> f1, remove |-> remove]
            ELSE consumeExtents(a1, len, c, idx + 1, freeLength - xLen, f1, remove)
    ELSE LET e == arr[idx]
         IN IF e.length > freeLength
            THEN consumeExtents(
                    shrinkFront(arr, idx, freeLength),
                    len, c, idx + 1, 0,
                    Append(free, FreeRange(e.offset, freeLength)), remove)
            ELSE consumeExtents(arr, len, c, idx + 1, freeLength - e.length,
                                Append(free, FreeRange(e.offset, e.length)),
                                Append(remove, e))

\* An extent that only moves to the new offset.
moveInPlace(arr, i, offset) == [arr EXCEPT ![i].offset = offset]

\* The update covers extent i exactly: it becomes an UPDATE extent at the new
\* offset.
replaceInPlace(arr, i, offset) ==
    [arr EXCEPT ![i].typ = "UPDATE", ![i].offset = offset]

\* BlockFile.repairExtent(offset, fOffset, length) on the inode's slice.
repairExtent(arr, len, offset, fOffset, length) ==
    LET w == walkExtents(arr, len, 0, fOffset)
    IN IF w.num >= len
       THEN \* b.snode.extents[num]: index out of range
            SliceResult(arr, len, arr, <<>>, TRUE)
       ELSE
       LET num == w.num
           ext == arr[num + 1]
           remaining == IF ext.length > w.fOffset + length
                        THEN ext.length - w.fOffset - length ELSE 0
           oldOff == ext.offset
       IN IF w.fOffset = 0 /\ ext.length = w.fOffset + length
          THEN LET a1 == replaceInPlace(arr, num + 1, offset)
               IN SliceResult(a1, len, a1, <<FreeRange(oldOff, length)>>, FALSE)
          ELSE
          LET newExt == [ZeroExtent EXCEPT !.typ = "UPDATE", !.offset = offset,
                                           !.length = length]
              vals == IF remaining > 0
                      THEN <<newExt, FreeRange(End(ext) - remaining, remaining)>>
                      ELSE <<newExt>>
              a1 == IF remaining > 0
                    THEN [arr EXCEPT ![num + 1].length = w.fOffset] ELSE arr
              c == [num |-> num, fOffset |-> w.fOffset, ext |-> ext]
              cons == consumeExtents(a1, len, c, num + 1, length, <<>>, <<>>)
              rem == IF Len(cons.remove) > 0
                     THEN extentsRemove(cons.arr, len, cons.remove)
                     ELSE SliceResult(cons.arr, len, cons.arr, <<>>, FALSE)
          IN IF rem.panic
             THEN SliceResult(rem.arr, rem.len, rem.arr, cons.free, TRUE)
             ELSE LET ins == extentsInsert(rem.arr, rem.len, num + 1, vals)
                  IN SliceResult(ins.arr, ins.len, ins.orig, cons.free, ins.panic)

\* ------------------------------------------------------------ the allocators

\* Allocate(n) in the data region: the lowest block-aligned offset at which n
\* bytes, rounded up to the block size, are free.
AllocateData(used, n) ==
    LET len == p2roundup(n, BlockSize)
        fits == {o \in 0..(DataCapacity - len) :
                    o % BlockSize = 0 /\ (o..(o + len - 1)) \cap used = {}}
    IN IF fits = {} THEN [ok |-> FALSE, offset |-> 0, allocated |-> 0]
       ELSE [ok |-> TRUE, offset |-> CHOOSE o \in fits : \A o2 \in fits : o <= o2,
             allocated |-> len]

\* Free(offset, length) in the data region.
FreeData(used, offset, length) ==
    IF length = 0 THEN used ELSE used \ (offset..(offset + length - 1))

RECURSIVE FreeAll(_, _)
FreeAll(used, free) ==
    IF free = <<>> THEN used
    ELSE FreeAll(FreeData(used, Head(free).offset, Head(free).length), Tail(free))

Overlaps(a, b) ==
    a.offset < b.offset + b.length /\ b.offset < a.offset + a.length

\* Allocate(n) in the log region; the allocated extents are kept as
\* (offset, length) pairs.
AllocateLog(used, n) ==
    LET len == p2roundup(n, BlockSize)
        fits == {o \in 0..(LogCapacity - len) :
                    /\ o % BlockSize = 0
                    /\ \A x \in used : ~Overlaps(x, [offset |-> o, length |-> len])}
    IN IF fits = {} THEN [ok |-> FALSE, offset |-> 0, allocated |-> 0]
       ELSE [ok |-> TRUE, offset |-> CHOOSE o \in fits : \A o2 \in fits : o <= o2,
             allocated |-> len]

\* Free(offset, length) in the log region: without effect for an extent that
\* is not an allocated one.
FreeLog(used, offset, length) == used \ {[offset |-> offset, length |-> length]}

\* ------------------------------------------------------- the inode's handlers

\* A goroutine that has copied the slice header of snode.extents reads the
\* array the slice had then. What it reads after an operation whose result is
\* res: the array as the operation left it, which it shares with the inode
\* for as long as the inode's slice has not moved to a new array.
Observe(o, res) ==
    IF o.shared
    THEN [o EXCEPT !.arr = res.orig, !.shared = (res.arr = res.orig)]
    ELSE o

Lengths(exts) == [i \in 1..Len(exts) |-> exts[i].length]

RECURSIVE Sum(_)
Sum(ns) == IF ns = <<>> THEN 0 ELSE Head(ns) + Sum(Tail(ns))

\* The original length of data that compresses to clen bytes.
OrigLens(clen) == {clen, clen + 1}

\* BlockFile.Append(offset, data), called with the offset of an extent
\* allocated for it (the data file of a column block is one of its callers
\* and records what it returns); compress.Compress gives clen bytes for the olen of data.
\* Offsets are those of the data region's allocator.
BlockFileAppend(clen, olen) ==
    /\ ipc = "run"
    /\ ops < MaxOps
    /\ LET cbufLen == p2roundup(clen, BlockSize)
           a == AllocateData(alloc, cbufLen)
           ext == [typ |-> "APPEND", offset |-> a.offset, length |-> cbufLen,
                   data |-> [offset |-> 0, length |-> clen]]
           app == GoAppend(snode.arr, snode.len, <<ext>>)
           res == SliceResult(app.arr, app.len,
                              IF app.realloc THEN snode.arr ELSE app.arr,
                              <<>>, FALSE)
       IN /\ a.ok
          /\ alloc' = alloc \cup (a.offset..(a.offset + a.allocated - 1))
          /\ snode' = [snode EXCEPT !.algo = "Lz4",
                                    !.arr = app.arr, !.len = app.len,
                                    !.size = @ + clen,
                                    !.originSize = @ + olen]
          /\ reader' = Observe(reader, res)
          /\ logger' = Observe(logger, res)
          /\ hist' = hist \cup {Elems(app)}
          /\ last' = [op |-> "Append", offset |-> a.offset, fOffset |-> 0,
                       dlen |-> clen, length |-> cbufLen, before |-> Elems(snode),
                       free |-> <<>>, panic |-> FALSE, err |-> "nil"]
    /\ ops' = ops + 1
    /\ UNCHANGED <<logAlloc, logRecords, ipc, got>>
    /\ UNCHANGED <<rvars, svars>>

\* BlockFile.Update(offset, data, fOffset) with dlen bytes of data, called with
\* the offset of an extent allocated for it; the caller frees what it returns.
BlockFileUpdate(dlen, fOffset) ==
    /\ ipc = "run"
    /\ ops < MaxOps
    /\ LET cbufLen == p2roundup(dlen, BlockSize)
           a == AllocateData(alloc, cbufLen)
           res == repairExtent(snode.arr, snode.len, a.offset, fOffset, cbufLen)
           held == alloc \cup (a.offset..(a.offset + a.allocated - 1))
       IN /\ a.ok
          /\ snode' = [snode EXCEPT !.arr = res.arr, !.len = res.len]
          /\ last' = [op |-> "Update", offset |-> a.offset, fOffset |-> fOffset,
                       dlen |-> dlen, length |-> cbufLen, before |-> Elems(snode),
                       free |-> res.free, panic |-> res.panic,
                       err |-> IF res.panic THEN "panic" ELSE "nil"]
          /\ reader' = Observe(reader, res)
          /\ logger' = Observe(logger, res)
          /\ IF res.panic
             THEN /\ ipc' = "panic"
                  /\ alloc' = held
                  /\ hist' = hist
             ELSE /\ ipc' = ipc
                  /\ alloc' = FreeAll(held, res.free)
                  /\ hist' = hist \cup {Elems(res)}
    /\ ops' = ops + 1
    /\ UNCHANGED <<logAlloc, logRecords, got>>
    /\ UNCHANGED <<rvars, svars, dvars>>

\* BlockFile.GetFileSize and BlockFile.GetOriginSize
GetFileSize ==
    /\ ipc = "run"
    /\ got' = [call |-> "GetFileSize", val |-> snode.size]
    /\ got' # got
    /\ UNCHANGED <<snode, alloc, logAlloc, logRecords, ops, ipc, logger, reader, hist>>
    /\ UNCHANGED <<rvars, svars, dvars, last>>

GetOriginSize ==
    /\ ipc = "run"
    /\ got' = [call |-> "GetOriginSize", val |-> snode.originSize]
    /\ got' # got
    /\ UNCHANGED <<snode, alloc, logAlloc, logRecords, ops, ipc, logger, reader, hist>>
    /\ UNCHANGED <<rvars, svars, dvars, last>>

\* uint32 subtraction a - b - c where it is only compared with a length: a
\* difference below zero wraps to a value above every length, written -1.
WrapSub(a, b, c) == IF a >= b + c THEN a - b - c ELSE -1

\* The second loop of BlockFile.ReadExtent. reads: the (offset, length) ranges
\* of the segment file it reads.
RECURSIVE readLoop(_, _, _, _, _, _, _, _)
readLoop(arr, len, remain, num, offset, length, read, reads) ==
    IF num >= len
    THEN [read |-> read, reads |-> reads, panic |-> TRUE]
    ELSE LET e == arr[num + 1]
             readOne == IF offset > 0
                        THEN (IF e.length - offset < length
                              THEN e.length - offset ELSE length)
                        ELSE (IF e.length < length THEN e.length ELSE length)
             rs == Append(reads, [offset |-> e.offset, length |-> readOne])
         IN IF length - readOne = 0 \/ length - readOne = remain
            THEN [read |-> read + readOne, reads |-> rs, panic |-> FALSE]
            ELSE readLoop(arr, len, remain, num + 1, 0, length - readOne,
                          read + readOne, rs)

\* BlockFile.ReadExtent(offset, length, data) on the inode as it is now.
ReadExtent(sn, offset, length) ==
    LET remain == WrapSub(sn.size, offset, length)
        w == walkExtents(sn.arr, sn.len, 0, offset)
    IN readLoop(sn.arr, sn.len, remain, w.num, w.fOffset, length, 0, <<>>)

\* BlockFile.Read(data), up to the loop: the slice header of snode.extents is
\* copied under the read lock. data is not empty and holds what the extents
\* contribute; the segment file's ReadAt does not fail.
ReadBegin ==
    /\ ipc = "run"
    /\ reader.pc \in {"idle", "done"}
    /\ reader' = [pc |-> IF snode.len = 0 THEN "done" ELSE "loop",
              arr |-> snode.arr, len |-> snode.len, shared |-> TRUE,
              i |-> 1, seen |-> <<>>, roff |-> 0, n |-> 0, reads |-> <<>>,
              at |-> ops]
    /\ UNCHANGED <<snode, alloc, logAlloc, logRecords, ops, ipc, logger, got, hist>>
    /\ UNCHANGED <<rvars, svars, dvars, last>>

\* One iteration of the loop of BlockFile.Read: the element is read from the
\* array of the copied slice, ReadExtent reads the inode as it is now.
ReadStep ==
    /\ ipc = "run"
    /\ reader.pc = "loop"
    /\ LET ext == reader.arr[reader.i]
           re == ReadExtent(snode, reader.roff, ext.data.length)
       IN IF re.panic
          THEN /\ reader' = [reader EXCEPT !.pc = "panic"]
               /\ ipc' = "panic"
          ELSE /\ reader' = [reader EXCEPT !.pc = IF reader.i = reader.len THEN "done" ELSE "loop",
                                   !.i = @ + 1,
                                   !.seen = Append(@, ext),
                                   !.roff = @ + ext.length,
                                   !.n = @ + re.read,
                                   !.reads = @ \o re.reads]
               /\ ipc' = ipc
    /\ UNCHANGED <<snode, alloc, logAlloc, logRecords, ops, logger, got, hist>>
    /\ UNCHANGED <<rvars, svars, dvars, last>>

\* The bytes of a log record before its extents (inode, algo, state, size and
\* the number of extents) and of one extent in it (typ, offset, length).
HeaderBytes == 26
ExtentBytes == 9

NoHeader == [state |-> "RESIDENT", size |-> 0, count |-> 0]

\* Log.Append(file), up to the read lock: the fields of the inode are read.
LogAppendHeader ==
    /\ ipc = "run"
    /\ logger.pc = "idle"
    /\ logger.calls < ops
    /\ logger' = [logger EXCEPT !.pc = "header", !.caller = "append",
                                !.calls = @ + 1,
                                !.hdr = [state |-> snode.state,
                                         size |-> snode.size,
                                         count |-> snode.len]]
    /\ UNCHANGED <<snode, alloc, logAlloc, logRecords, ops, ipc, reader, got, hist>>
    /\ UNCHANGED <<rvars, svars, dvars, last>>

\* Log.RemoveInode(file), up to the read lock of the Log.Append it calls.
RemoveInode ==
    /\ ipc = "run"
    /\ logger.pc = "idle"
    /\ snode.state = "RESIDENT"
    /\ snode' = [snode EXCEPT !.state = "REMOVE"]
    /\ logger' = [logger EXCEPT !.pc = "header", !.caller = "remove",
                                !.prev = snode.logExtents,
                                !.hdr = [state |-> "REMOVE",
                                         size |-> snode.size,
                                         count |-> snode.len]]
    /\ UNCHANGED <<alloc, logAlloc, logRecords, ops, ipc, reader, got, hist>>
    /\ UNCHANGED <<rvars, svars, dvars, last>>

\* Log.Append: the slice header of snode.extents is copied under the read lock.
LogAppendCopy ==
    /\ ipc = "run"
    /\ logger.pc = "header"
    /\ logger' = [logger EXCEPT !.pc = "copied", !.arr = snode.arr,
                                !.len = snode.len, !.shared = TRUE,
                                !.img = snode.size]
    /\ UNCHANGED <<snode, alloc, logAlloc, logRecords, ops, ipc, reader, got, hist>>
    /\ UNCHANGED <<rvars, svars, dvars, last>>

\* The length Log.Append asks the allocator for, for a record of n bytes.
ibufLen(n) == (BlockSize - (n % BlockSize)) + n

\* Log.Append from the loop over the copied slice on: the record is completed,
\* an extent of the log region is allocated for it, the record is written
\* (werr: WriteAt fails), the previous log extent is freed and the inode gets
\* the new one.
LogAppendWrite(werr) ==
    /\ ipc = "run"
    /\ logger.pc = "copied"
    /\ LET exts == [i \in 1..logger.len |->
                      [typ |-> logger.arr[i].typ, offset |-> logger.arr[i].offset,
                       length |-> logger.arr[i].length]]
           n == HeaderBytes + ExtentBytes * logger.len
           a == AllocateLog(logAlloc, ibufLen(n))
           held == IF a.ok
                   THEN logAlloc \cup {[offset |-> a.offset, length |-> a.allocated]}
                   ELSE logAlloc
           before == [logExtents |-> snode.logExtents,
                      held |-> snode.logExtents \in logAlloc,
                      records |-> Len(logRecords)]
       IN IF werr
          THEN /\ logAlloc' = held
               /\ logger' = [logger EXCEPT !.pc = "idle", !.shared = FALSE,
                                           !.ret = "EIO", !.full = ~a.ok,
                                           !.before = before]
               /\ UNCHANGED <<snode, logRecords>>
          ELSE /\ logRecords' = Append(logRecords,
                                  [at |-> a.offset, length |-> n,
                                   state |-> logger.hdr.state,
                                   size |-> logger.hdr.size,
                                   count |-> logger.hdr.count,
                                   extents |-> exts])
               /\ logAlloc' = FreeLog(held, snode.logExtents.offset,
                                      snode.logExtents.length)
               /\ snode' = [snode EXCEPT !.logExtents =
                               [offset |-> a.offset, length |-> a.allocated]]
               /\ logger' = [logger EXCEPT
                               !.pc = IF logger.caller = "remove" THEN "free"
                                      ELSE "idle",
                               !.shared = FALSE,
                               !.ret = "nil", !.full = ~a.ok, !.before = before]
    /\ UNCHANGED <<alloc, ops, ipc, reader, got, hist>>
    /\ UNCHANGED <<rvars, svars, dvars, last>>

\* Log.RemoveInode after its Log.Append returned nil.
RemoveInodeFree ==
    /\ ipc = "run"
    /\ logger.pc = "free"
    /\ logAlloc' = FreeLog(logAlloc, snode.logExtents.offset,
                           snode.logExtents.length)
    /\ logger' = [logger EXCEPT !.pc = "idle", !.removed = TRUE, !.rops = ops]
    /\ UNCHANGED <<snode, alloc, logRecords, ops, ipc, reader, got, hist>>
    /\ UNCHANGED <<rvars, svars, dvars, last>>

\* An inode that nothing has been appended to, and goroutines at rest.
InitInode ==
    /\ snode = [size |-> 0, originSize |-> 0, arr |-> <<>>, len |-> 0,
                logExtents |-> [offset |-> 0, length |-> 0],
                state |-> "RESIDENT", algo |-> "None"]
    /\ alloc = {}
    /\ logAlloc = {}
    /\ logRecords = <<>>
    /\ ops = 0
    /\ ipc = "run"
    /\ logger = [pc |-> "idle", arr |-> <<>>, len |-> 0, shared |-> FALSE,
                 hdr |-> NoHeader, caller |-> "append", calls |-> 0,
                 prev |-> [offset |-> 0, length |-> 0], removed |-> FALSE,
                 rops |-> 0, ret |-> "none", full |-> FALSE, img |-> 0,
                 before |-> [logExtents |-> [offset |-> 0, length |-> 0],
                             held |-> FALSE, records |-> 0]]
    /\ reader = [pc |-> "idle", arr |-> <<>>, len |-> 0, shared |-> FALSE,
                 i |-> 1, seen |-> <<>>, roff |-> 0, n |-> 0, reads |-> <<>>,
                 at |-> 0]
    /\ got = [call |-> "none", val |-> 0]
    /\ hist = {<<>>}
    /\ last = [op |-> "none", offset |-> 0, fOffset |-> 0, dlen |-> 0, length |-> 0,
                before |-> <<>>, free |-> <<>>, panic |-> FALSE, err |-> "nil"]

\* ========================================================= the catalog schema

\* The number of columns a schema is given.
MaxCols == 3

\* Strings and byte slices are sequences of bytes.
ColNames == {<<1>>, <<2>>}
PhyAddrColumnName == <<9>>
PhyAddrColumnComment == <<9, 9>>
PhyAddrColumnType == 9
ColType == 4

\* The sort indexes the callers pass, as int.
SortIdxs == {0, 1, 256}

\* int8(idx)
Int8(idx) == LET m == idx % 256 IN IF m >= 128 THEN m - 256 ELSE m

\* The fields of a Schema that are not columns, as the catalog sets them.
SchemaTexts ==
    [View : {<<>>, <<6>>}, Constraint : {<<>>, <<7>>},
     UniqueIndex : {<<>>, <<5>>}, SecondaryIndex : {<<>>, <<8>>}]

\* new(ColDef)
ZeroColDef ==
    [Name |-> <<>>, Idx |-> 0, Type |-> 0, Hidden |-> FALSE, PhyAddr |-> FALSE,
     NullAbility |-> FALSE, AutoIncrement |-> FALSE, Primary |-> FALSE,
     SortIdx |-> 0, SortKey |-> FALSE, Comment |-> <<>>, ClusterBy |-> FALSE,
     Default |-> <<>>, OnUpdate |-> <<>>]

\* A nil *SortKey and a nil *ColDef. A *ColDef is the index of the column,
\* from 0, as ColDef.Idx.
NilSortKey == [nil |-> TRUE, Defs |-> <<>>, search |-> {}, isPrimary |-> FALSE]
NilColDef == -1

\* NewEmptySchema(name)
NewEmptySchema(name) ==
    [AcInfo |-> 0, Name |-> name, ColDefs |-> <<>>, NameIndex |-> {},
     BlockMaxRows |-> 0, SegmentMaxBlocks |-> 0, Comment |-> <<>>,
     Partition |-> <<>>, Relkind |-> <<>>, Createsql |-> <<>>, View |-> <<>>,
     UniqueIndex |-> <<>>, SecondaryIndex |-> <<>>, Constraint |-> <<>>,
     SortKey |-> NilSortKey, PhyAddrKey |-> NilColDef]

\* SortKey.AddDef(def) on NewSortKey()
AddDef(def) ==
    [nil |-> FALSE, Defs |-> <<def.Idx>>, search |-> {<<def.Idx, def.SortIdx>>},
     isPrimary |-> def.Primary]

\* Schema.AppendColDef(def): the schema after it and the error returned.
AppendColDef(s, def) ==
    LET d == [def EXCEPT !.Idx = Len(s.ColDefs)]
        s1 == [s EXCEPT !.ColDefs = Append(@, d)]
        existed == \E e \in s.NameIndex : e[1] = d.Name
    IN IF existed
       THEN [s |-> s1, err |-> "ConstraintViolation"]
       ELSE [s |-> [s1 EXCEPT !.NameIndex = @ \cup {<<d.Name, d.Idx>>}],
             err |-> "nil"]

\* The loop of Schema.Finalize over the columns from idx on (idx from 0).
RECURSIVE checkColDefs(_, _, _, _)
checkColDefs(s, idx, names, sortColIdx) ==
    IF idx = Len(s.ColDefs)
    THEN [s |-> s, err |-> "nil", sortColIdx |-> sortColIdx]
    ELSE LET def == s.ColDefs[idx + 1]
         IN IF idx # def.Idx
            THEN [s |-> s, err |-> "InvalidInput", sortColIdx |-> sortColIdx]
            ELSE IF def.Name \in names
            THEN [s |-> s, err |-> "InvalidInput", sortColIdx |-> sortColIdx]
            ELSE LET sorts == IF def.SortKey THEN Append(sortColIdx, idx)
                              ELSE sortColIdx
                 IN IF def.PhyAddr
                    THEN IF s.PhyAddrKey # NilColDef
                         THEN [s |-> s, err |-> "InvalidInput", sortColIdx |-> sorts]
                         ELSE checkColDefs([s EXCEPT !.PhyAddrKey = def.Idx],
                                           idx + 1, names \cup {def.Name}, sorts)
                    ELSE checkColDefs(s, idx + 1, names \cup {def.Name}, sorts)

\* Schema.Finalize(withoutPhyAddr) from the check of len(s.ColDefs) on.
finalizeColDefs(s) ==
    IF Len(s.ColDefs) = 0
    THEN [s |-> s, err |-> "ConstraintViolation"]
    ELSE LET chk == checkColDefs(s, 0, {}, <<>>)
         IN IF chk.err # "nil" THEN [s |-> chk.s, err |-> chk.err]
            ELSE IF Len(chk.sortColIdx) = 1
            THEN LET def == chk.s.ColDefs[chk.sortColIdx[1] + 1]
                 IN IF def.SortIdx # 0
                    THEN [s |-> chk.s, err |-> "ConstraintViolation"]
                    ELSE [s |-> [chk.s EXCEPT !.SortKey = AddDef(def)],
                          err |-> "nil"]
            ELSE IF Len(chk.sortColIdx) > 1
            THEN [s |-> chk.s, err |-> "panic"]
            ELSE [s |-> chk.s, err |-> "nil"]

\* Schema.Finalize(withoutPhyAddr) on a schema that is not nil.
Finalize(s, withoutPhyAddr) ==
    IF ~withoutPhyAddr
    THEN LET phyAddrDef == [ZeroColDef EXCEPT !.Name = PhyAddrColumnName,
                                              !.Comment = PhyAddrColumnComment,
                                              !.Type = PhyAddrColumnType,
                                              !.Hidden = TRUE,
                                              !.NullAbility = FALSE,
                                              !.PhyAddr = TRUE]
             app == AppendColDef(s, phyAddrDef)
         IN IF app.err # "nil" THEN app ELSE finalizeColDefs(app.s)
    ELSE finalizeColDefs(s)

\* ------------------------------------------------- the schema's serialization

\* A length that no buffer holds: what a big-endian number with a byte other
\* than 0 above its lowest two stands for.
Huge == 256 * 256

\* binary.Write(w, binary.BigEndian, n) of an unsigned integer of k bytes.
BigEndian(k, n) ==
    [i \in 1..k |-> IF i = k THEN n % 256
                    ELSE IF i = k - 1 THEN (n \div 256) % 256 ELSE 0]

\* binary.Read of an unsigned integer from k bytes.
FromBigEndian(k, bs) ==
    IF \E i \in 1..(k - 2) : bs[i] # 0 THEN Huge
    ELSE IF k = 1 THEN bs[1] ELSE bs[k - 1] * 256 + bs[k]

\* The bytes written for one field: binary.Write of integers and booleans,
\* common.WriteString (a length of 2 bytes, then the bytes), common.WriteBytes
\* (a length of 4 bytes, then the bytes), types.EncodeType, and a length of
\* 8 bytes followed by the bytes.
Encode(kind, val) ==
    CASE kind = "uint16" -> BigEndian(2, val)
      [] kind = "uint32" -> BigEndian(4, val)
      [] kind = "acinfo" -> <<val>>
      [] kind = "type" -> <<val>>
      [] kind = "bool" -> <<IF val THEN 1 ELSE 0>>
      [] kind = "int8" -> <<IF val < 0 THEN val + 256 ELSE val>>
      [] kind = "string" -> BigEndian(2, Len(val)) \o val
      [] kind = "bytes" -> BigEndian(4, Len(val)) \o val
      [] kind = "blob" -> BigEndian(8, Len(val)) \o val

Rest(bs, k) == SubSeq(bs, k + 1, Len(bs))

\* A length of k bytes and then as many bytes as it says.
DecodeSized(k, bs) ==
    IF Len(bs) < k THEN [ok |-> FALSE, val |-> <<>>, rest |-> bs]
    ELSE LET n == FromBigEndian(k, bs)
         IN IF Len(bs) - k < n THEN [ok |-> FALSE, val |-> <<>>, rest |-> <<>>]
            ELSE [ok |-> TRUE, val |-> SubSeq(bs, k + 1, k + n),
                  rest |-> Rest(bs, k + n)]

DecodeNumber(k, bs) ==
    IF Len(bs) < k THEN [ok |-> FALSE, val |-> 0, rest |-> bs]
    ELSE [ok |-> TRUE, val |-> FromBigEndian(k, bs), rest |-> Rest(bs, k)]

\* The value read for one field, and the bytes left.
Decode(kind, bs) ==
    CASE kind = "uint16" -> DecodeNumber(2, bs)
      [] kind = "uint32" -> DecodeNumber(4, bs)
      [] kind = "acinfo" -> DecodeNumber(1, bs)
      [] kind = "type" -> DecodeNumber(1, bs)
      [] kind = "bool" ->
            LET b == DecodeNumber(1, bs) IN [b EXCEPT !.val = (b.ok /\ b.val # 0)]
      [] kind = "int8" ->
            LET b == DecodeNumber(1, bs) IN [b EXCEPT !.val = Int8(b.val)]
      [] kind = "string" -> DecodeSized(2, bs)
      [] kind = "bytes" -> DecodeSized(4, bs)
      [] kind = "blob" -> DecodeSized(8, bs)

\* The fields before the columns in the order Marshal writes them.
MarshalHeader ==
    << <<"BlockMaxRows", "uint32">>, <<"SegmentMaxBlocks", "uint16">>,
       <<"AcInfo", "acinfo">>, <<"Name", "string">>, <<"Comment", "string">>,
       <<"Partition", "string">>, <<"Relkind", "string">>,
       <<"Createsql", "string">>, <<"View", "string">>,
       <<"Constraint", "bytes">>, <<"UniqueIndex", "string">>,
       <<"SecondaryIndex", "string">> >>

\* The fields before the columns in the order ReadFrom reads them.
ReadFromHeader ==
    << <<"BlockMaxRows", "uint32">>, <<"SegmentMaxBlocks", "uint16">>,
       <<"AcInfo", "acinfo">>, <<"Name", "string">>, <<"Comment", "string">>,
       <<"Partition", "string">>, <<"Relkind", "string">>,
       <<"Createsql", "string">>, <<"View", "string">>,
       <<"UniqueIndex", "string">>, <<"SecondaryIndex", "string">>,
       <<"Constraint", "bytes">> >>

\* The fields of a column, in the order of both Marshal and ReadFrom.
ColDefFields ==
    << <<"Type", "type">>, <<"Name", "string">>, <<"Comment", "string">>,
       <<"NullAbility", "bool">>, <<"Hidden", "bool">>, <<"PhyAddr", "bool">>,
       <<"AutoIncrement", "bool">>, <<"SortIdx", "int8">>,
       <<"Primary", "bool">>, <<"SortKey", "bool">>, <<"ClusterBy", "bool">>,
       <<"Default", "blob">>, <<"OnUpdate", "blob">> >>

RECURSIVE WriteFields(_, _)
WriteFields(rec, fields) ==
    IF fields = <<>> THEN <<>>
    ELSE Encode(Head(fields)[2], rec[Head(fields)[1]])
         \o WriteFields(rec, Tail(fields))

RECURSIVE ReadFields(_, _, _)
ReadFields(rec, fields, bs) ==
    IF fields = <<>> THEN [ok |-> TRUE, rec |-> rec, rest |-> bs]
    ELSE LET d == Decode(Head(fields)[2], bs)
         IN IF ~d.ok THEN [ok |-> FALSE, rec |-> rec, rest |-> d.rest]
            ELSE ReadFields([rec EXCEPT ![Head(fields)[1]] = d.val],
                            Tail(fields), d.rest)

RECURSIVE WriteColDefs(_)
WriteColDefs(defs) ==
    IF defs = <<>> THEN <<>>
    ELSE WriteFields(Head(defs), ColDefFields) \o WriteColDefs(Tail(defs))

\* Schema.Marshal()
Marshal(s) ==
    WriteFields(s, MarshalHeader)
    \o Encode("uint16", Len(s.ColDefs))
    \o WriteColDefs(s.ColDefs)

\* The loop of Schema.ReadFrom over the colCnt columns.
RECURSIVE readColDefs(_, _, _)
readColDefs(s, colCnt, bs) ==
    IF colCnt = 0 THEN [s |-> s, err |-> "nil"]
    ELSE LET d == ReadFields(ZeroColDef, ColDefFields, bs)
         IN IF ~d.ok THEN [s |-> s, err |-> "EOF"]
            ELSE LET app == AppendColDef(s, d.rec)
                 IN IF app.err # "nil" THEN app
                    ELSE readColDefs(app.s, colCnt - 1, d.rest)

\* Schema.ReadFrom(r) on the schema s, r holding the bytes bs.
SchemaReadFrom(s, bs) ==
    LET h == ReadFields(s, ReadFromHeader, bs)
        cnt == Decode("uint16", h.rest)
    IN IF ~h.ok THEN [s |-> h.rec, err |-> "EOF"]
       ELSE IF ~cnt.ok THEN [s |-> h.rec, err |-> "EOF"]
       ELSE LET cols == readColDefs(h.rec, cnt.val, cnt.rest)
            IN IF cols.err # "nil" THEN cols
               ELSE Finalize(cols.s, TRUE)

\* Schema.Clone(): the new schema, and "panic" where it panics.
Clone(s) == SchemaReadFrom(NewEmptySchema(s.Name), Marshal(s))

\* ------------------------------------------------------ the schema's callers

SchemaName == <<3>>

\* The result of a call on the schema: the call, the error it returned
\* ("panic" where it panicked instead) and the schema before the call.
SchemaResult(op, err, withoutPhyAddr) ==
    [op |-> op, err |-> err, withoutPhyAddr |-> withoutPhyAddr, before |-> schema]

\* A process that panicked makes no further call.
Running == sres.err # "panic"

\* Schema.AppendCol(name, typ)
AppendCol(name) ==
    LET def == [ZeroColDef EXCEPT !.Name = name, !.Type = ColType,
                                  !.SortIdx = -1, !.NullAbility = TRUE]
        app == AppendColDef(schema, def)
    IN /\ Running
       /\ Len(schema.ColDefs) < MaxCols
       /\ schema' = app.s
       /\ finalized' = FALSE
       /\ sres' = SchemaResult("AppendCol", app.err, FALSE)
       /\ UNCHANGED <<rvars, ivars, dvars, cloned>>

\* Schema.AppendSortKey(name, typ, idx, isPrimary)
AppendSortKey(name, idx, isPrimary) ==
    LET def == [ZeroColDef EXCEPT !.Name = name, !.Type = ColType,
                                  !.SortIdx = Int8(idx), !.SortKey = TRUE,
                                  !.Primary = isPrimary]
        app == AppendColDef(schema, def)
    IN /\ Running
       /\ Len(schema.ColDefs) < MaxCols
       /\ schema' = app.s
       /\ finalized' = FALSE
       /\ sres' = SchemaResult("AppendSortKey", app.err, FALSE)
       /\ UNCHANGED <<rvars, ivars, dvars, cloned>>

\* Schema.AppendPKCol(name, typ, idx)
AppendPKCol(name, idx) ==
    LET def == [ZeroColDef EXCEPT !.Name = name, !.Type = ColType,
                                  !.SortIdx = Int8(idx), !.SortKey = TRUE,
                                  !.Primary = TRUE, !.NullAbility = FALSE]
        app == AppendColDef(schema, def)
    IN /\ Running
       /\ Len(schema.ColDefs) < MaxCols
       /\ schema' = app.s
       /\ finalized' = FALSE
       /\ sres' = SchemaResult("AppendPKCol", app.err, FALSE)
       /\ UNCHANGED <<rvars, ivars, dvars, cloned>>

\* Schema.Finalize(withoutPhyAddr)
SchemaFinalize(withoutPhyAddr) ==
    LET fin == Finalize(schema, withoutPhyAddr)
    IN /\ Running
       /\ ~withoutPhyAddr => Len(schema.ColDefs) < MaxCols
       /\ schema' = fin.s
       /\ finalized' = (fin.err = "nil")
       /\ sres' = SchemaResult("Finalize", fin.err, withoutPhyAddr)
       /\ UNCHANGED <<rvars, ivars, dvars, cloned>>

\* Schema.Clone()
SchemaClone ==
    LET ns == Clone(schema)
    IN /\ Running
       /\ cloned' = IF ns.err = "nil" THEN <<ns.s>> ELSE <<>>
       /\ sres' = SchemaResult("Clone", IF ns.err = "nil" THEN "nil" ELSE "panic",
                               FALSE)
       /\ UNCHANGED <<rvars, ivars, dvars, schema, finalized>>

\* The catalog fills the exported fields of a new schema before its first call.
SetTexts(t) ==
    /\ sres.op = "none"
    /\ schema' = [schema EXCEPT !.View = t.View, !.Constraint = t.Constraint,
                                !.UniqueIndex = t.UniqueIndex,
                                !.SecondaryIndex = t.SecondaryIndex]
    /\ sres' = SchemaResult("set", "nil", FALSE)
    /\ UNCHANGED <<rvars, ivars, dvars, finalized, cloned>>

InitSchema ==
    /\ schema = NewEmptySchema(SchemaName)
    /\ finalized = FALSE
    /\ sres = [op |-> "none", err |-> "nil", withoutPhyAddr |-> FALSE,
               before |-> schema]
    /\ cloned = <<>>

\* ------------------------------------------------ the column block's files

\* The number of Write calls on the file.
MaxWrites == 3

\* The buffers the callers write, and the lengths of the buffers they read into.
DataBufs == {<<1>>, <<2, 3>>}
ReadLens == 1..3

\* The ReadAt call of the segment file that fails during a Read, counted from
\* 1; 0: none fails.
FailingReadAt == 0..2

FileKinds == {"data", "updates", "deletes"}

\* fileStat{}
NoStat == [size |-> 0, algo |-> "None", originSize |-> 0]

\* newData(colBlk); newUpdates and newDeletes set its file to nil, which it
\* is already.
newData(kind) == [kind |-> kind, file |-> FALSE, buf |-> <<>>, stat |-> NoStat]

NoResult == [n |-> 0, err |-> "nil", panic |-> FALSE]

\* The result of a call on the dataFile; inner: what BlockFile.Read returned
\* to it.
DataResult(op, n, err, data, inner) ==
    [op |-> op, n |-> n, err |-> err, data |-> data, inner |-> inner]

\* copy(dst, src) into a zeroed buffer of blen bytes.
CopyInto(blen, src) == [i \in 1..blen |-> IF i <= Len(src) THEN src[i] ELSE 0]

\* BlockFile.Read(data) with no concurrent operation, from extent i on: roff
\* and n as in the code, done the ReadAt calls made so far, failAt the one
\* that returns an error. ReadExtent returns (0, err) on it.
RECURSIVE blockFileRead(_, _, _, _, _, _)
blockFileRead(sn, i, roff, n, done, failAt) ==
    IF i > sn.len THEN [n |-> n, err |-> "nil", panic |-> FALSE]
    ELSE LET ext == sn.arr[i]
             re == ReadExtent(sn, roff, ext.data.length)
             failed == done < failAt /\ failAt <= done + Len(re.reads)
         IN IF failed
            THEN IF 0 # ext.data.length
                 THEN [n |-> 0, err |-> "EIO", panic |-> FALSE]
                 ELSE blockFileRead(sn, i + 1, roff + ext.length, n, failAt, failAt)
            ELSE IF re.panic THEN [n |-> n, err |-> "nil", panic |-> TRUE]
            ELSE blockFileRead(sn, i + 1, roff + ext.length, n + re.read,
                               done + Len(re.reads), failAt)

\* newData, newUpdates, newDeletes
NewFile(kind) ==
    /\ df.kind = "none"
    /\ df' = newData(kind)
    /\ dres' = DataResult("new", 0, "nil", <<>>, NoResult)
    /\ UNCHANGED <<rvars, ivars, svars, written>>

\* The column block attaches the BlockFile of the column to its data file.
AttachFile ==
    /\ df.kind = "data"
    /\ ~df.file
    /\ written = <<>>
    /\ df' = [df EXCEPT !.file = TRUE]
    /\ dres' = DataResult("attach", 0, "nil", <<>>, NoResult)
    /\ UNCHANGED <<rvars, ivars, svars, written>>

\* dataFile.Write(buf). With a BlockFile, Segment.Append allocates an extent
\* and calls BlockFile.Append; n is not assigned on that path.
DataFileWrite(buf) ==
    /\ df.kind # "none"
    /\ Len(written) < MaxWrites
    /\ written' = Append(written, buf)
    /\ IF ~df.file
       THEN /\ df' = [df EXCEPT !.buf = buf,
                                !.stat = [size |-> Len(buf), algo |-> "None",
                                          originSize |-> Len(buf)]]
            /\ dres' = DataResult("Write", Len(buf), "nil", <<>>, NoResult)
            /\ UNCHANGED <<rvars, ivars, svars>>
       ELSE /\ \E clen \in 1..MaxData :
                  Len(buf) \in OrigLens(clen) /\ BlockFileAppend(clen, Len(buf))
            /\ df' = [df EXCEPT !.stat = [size |-> snode'.size, algo |-> "Lz4",
                                          originSize |-> snode'.originSize]]
            /\ dres' = DataResult("Write", 0, "nil", <<>>, NoResult)

\* dataFile.Read(buf) with a buffer of blen bytes.
DataFileRead(blen, failAt) ==
    /\ df.kind # "none"
    /\ ipc = "run"
    /\ IF ~df.file
       THEN /\ dres' = DataResult("Read", blen, "nil", CopyInto(blen, df.buf),
                                  NoResult)
            /\ ipc' = ipc
       ELSE LET inner == blockFileRead(snode, 1, 0, 0, 0, failAt)
            IN /\ dres' = DataResult("Read", inner.n, "nil", <<>>, inner)
               /\ ipc' = IF inner.panic THEN "panic" ELSE ipc
    /\ dres' # dres
    /\ UNCHANGED <<snode, alloc, logAlloc, logRecords, ops, logger, reader, got,
                   hist, last>>
    /\ UNCHANGED <<rvars, svars, df, written>>

InitData ==
    /\ df = [kind |-> "none", file |-> FALSE, buf |-> <<>>, stat |-> NoStat]
    /\ written = <<>>
    /\ dres = DataResult("none", 0, "nil", <<>>, NoResult)

\* ---------------------------------------------------------- specifications

InitReplay ==
    /\ files = << [version |-> 0, entries |-> <<>>, torn |-> 0] >>
    /\ fsize = <<0>>
    /\ nextLsn = [g \in Groups |-> 1]
    /\ pc = "write"
    /\ fidx = 1
    /\ fpos = 0
    /\ r = newReplayer
    /\ ci = 0
    /\ ei = 1
    /\ ui = 0
    /\ applied = <<>>
    /\ failedAt = 0
    /\ runs = <<>>

Init == InitReplay /\ InitInode /\ InitSchema /\ InitData

\* Replay of one whole log file.
NextReplay ==
    \/ \E sh \in EntryShapes : AppendEntry(sh)
    \/ Crash(0)
    \/ \E truncErr \in BOOLEAN : ReplayHandler(truncErr)
    \/ \E err \in BOOLEAN : ApplyCall(err)
    \/ ApplyReturn

SpecReplay == Init /\ [][NextReplay]_vars

\* Replay of several files, the last one torn.
NextTorn ==
    \/ \E sh \in PlainShapes : AppendEntry(sh)
    \/ Rotate
    \/ \E cut \in TearCuts : Crash(cut)
    \/ \E truncErr \in BOOLEAN : ReplayHandler(truncErr)
    \/ \E err \in BOOLEAN : ApplyCall(err)
    \/ ApplyReturn

SpecTorn == Init /\ [][NextTorn]_vars

\* Replay of several files, twice.
NextTwice ==
    \/ \E sh \in PlainShapes : AppendEntry(sh)
    \/ Rotate
    \/ \E cut \in TearCuts : Crash(cut)
    \/ \E truncErr \in BOOLEAN : ReplayHandler(truncErr)
    \/ \E err \in BOOLEAN : ApplyCall(err)
    \/ ApplyReturn
    \/ ReplayAgain

SpecTwice == Init /\ [][NextTwice]_vars

\* Replay of a torn file by a handler that is given any position of the file
\* as the file's state position.
NextHandler ==
    \/ \E sh \in PlainShapes : AppendEntry(sh)
    \/ Rotate
    \/ \E cut \in TearCuts : Crash(cut)
    \/ \E truncErr \in BOOLEAN :
          \E current \in 0..fsize[fidx] : ReplayHandlerAt(current, truncErr)
    \/ \E err \in BOOLEAN : ApplyCall(err)
    \/ ApplyReturn

SpecHandler == Init /\ [][NextHandler]_vars

\* One inode with a writer and a reader.
NextInode ==
    \/ \E clen \in 1..MaxData : \E olen \in OrigLens(clen) :
          BlockFileAppend(clen, olen) /\ UNCHANGED dvars
    \/ \E dlen \in 1..MaxData :
          \E fOffset \in 0..Sum(Lengths(Elems(snode))) : BlockFileUpdate(dlen, fOffset)
    \/ ReadBegin
    \/ ReadStep

SpecInode == Init /\ [][NextInode]_vars

\* One inode with a writer, the log, and a reader of its sizes.
NextLog ==
    \/ \E clen \in 1..MaxData : \E olen \in OrigLens(clen)  :
          ops < MaxLogOps /\ BlockFileAppend(clen, olen) /\ UNCHANGED dvars
    \/ \E dlen \in 1..MaxData :
          \E fOffset \in 0..Sum(Lengths(Elems(snode))) :
             ops < MaxLogOps /\ BlockFileUpdate(dlen, fOffset)
    \/ GetFileSize
    \/ GetOriginSize
    \/ LogAppendHeader
    \/ LogAppendCopy
    \/ \E werr \in BOOLEAN : LogAppendWrite(werr)
    \/ RemoveInode
    \/ RemoveInodeFree

SpecLog == Init /\ [][NextLog]_vars

\* The callers of one schema.
NextSchema ==
    \/ \E t \in SchemaTexts : SetTexts(t)
    \/ \E name \in ColNames : AppendCol(name)
    \/ \E name \in ColNames, idx \in SortIdxs, isPrimary \in BOOLEAN :
          AppendSortKey(name, idx, isPrimary)
    \/ \E name \in ColNames, idx \in SortIdxs : AppendPKCol(name, idx)
    \/ \E withoutPhyAddr \in BOOLEAN : SchemaFinalize(withoutPhyAddr)
    \/ SchemaClone

SpecSchema == Init /\ [][NextSchema]_vars

\* One file of a column block, its writers and its readers.
NextData ==
    \/ \E kind \in FileKinds : NewFile(kind)
    \/ AttachFile
    \/ \E buf \in DataBufs : DataFileWrite(buf)
    \/ \E blen \in ReadLens, failAt \in FailingReadAt : DataFileRead(blen, failAt)

SpecData == Init /\ [][NextData]_vars


\* ------------------------------------------------ the claims on the replayer

\* The lsns of group g that the checkpoints of the log declare, taken from the
\* entries as written, wherever they stand in the log.
Declared(g) ==
    {n \in 1..(MaxEntries + 1) :
        \E i \in 1..Len(Log) :
            /\ Log[i].typ = "Checkpoint"
            /\ \E c \in 1..Len(Log[i].checkpoints) :
                  /\ Log[i].checkpoints[c].Group = g
                  /\ \E v \in 1..Len(Log[i].checkpoints[c].Ranges) :
                        /\ Log[i].checkpoints[c].Ranges[v].Start <= n
                        /\ n <= Log[i].checkpoints[c].Ranges[v].End}

\* The entry as written whose payload invocation k carries.
EntryOf(k) == Log[applied[k].payload]

Calls == 1..Len(applied)

IsEntryCall(k) == EntryOf(k).typ \in {"Txn", "Commit"}
IsFragmentCall(k) == EntryOf(k).typ = "Uncommitted"
IsCheckpointCall(k) == EntryOf(k).typ = "Checkpoint"

Suppressed(e) == e.lsn \in Declared(e.group)

\* C1: the apply callback is never invoked for an entry of the ordered entry
\* list (Txn, Commit) whose (group, lsn) lies in the ranges that the
\* checkpoints of the log, before or after it, declare for its group.
C1_CheckpointSuppression ==
    \A k \in Calls : IsEntryCall(k) => ~Suppressed(EntryOf(k))

\* Apply has run through a log in which a checkpoint written after a Txn entry
\* suppresses it, and in which another entry was applied.
C1_Witness ==
    /\ pc = "done"
    /\ \E i, j \in 1..Len(Log) :
          /\ i < j
          /\ Log[i].typ = "Txn"
          /\ Log[j].typ = "Checkpoint"
          /\ Suppressed(Log[i])
    /\ \E k \in Calls : IsEntryCall(k)

\* The Txn entry that Apply is processing when it makes invocation k: the one
\* of the next invocation that is no fragment, or the one Apply stands at.
CommittingEntry(k) ==
    LET later == {j \in (k + 1)..Len(applied) : ~IsFragmentCall(j)}
    IN IF later # {}
       THEN EntryOf(CHOOSE j \in later : \A j2 \in later : j <= j2)
       ELSE Log[r.entrys[ei].payload]

\* C2: an Uncommitted payload reaches the callback only while Apply processes
\* a Txn entry of the same txn-id and of a group in the fragment's participant
\* list that no checkpoint range suppresses.
C2_FragmentsOnlyWithTxn ==
    \A k \in Calls :
        IsFragmentCall(k) =>
            /\ (\A j \in (k + 1)..Len(applied) : IsFragmentCall(j)) =>
                    (pc \in {"apply", "panic"} /\ ei <= Len(r.entrys))
            /\ LET T == CommittingEntry(k)
                   U == EntryOf(k)
               IN /\ T.typ = "Txn"
                  /\ T.tid = U.tid
                  /\ T.group \in Range(U.uncommits)
                  /\ ~Suppressed(T)

\* Apply has run through a log with a fragment it applied and a fragment of
\* another transaction, without a Txn entry, that it did not apply.
C2_Witness ==
    /\ pc = "done"
    /\ \E k \in Calls : IsFragmentCall(k)
    /\ \E i \in 1..Len(Log) :
          /\ Log[i].typ = "Uncommitted"
          /\ \A k \in Calls : applied[k].payload # i

\* The payloads of the fragments of Txn entry T, in log order.
FragmentsInLog(T) ==
    LET us == SelectSeq(Log, LAMBDA u : /\ u.typ = "Uncommitted"
                                        /\ u.tid = T.tid
                                        /\ T.group \in Range(u.uncommits))
    IN [i \in 1..Len(us) |-> us[i].payload]

\* C3: for every Txn entry T that is applied, the invocations right before
\* T's own are those of T's fragments in log order, and no fragment of T is
\* applied after T: no later invocation carries one of these payloads on
\* behalf of T's (group, txn-id).
C3_FragmentsThenTxnOnce ==
    \A k \in Calls :
        applied[k].entryType = "Txn" =>
            LET fr == FragmentsInLog(EntryOf(k))
                n == Len(fr)
            IN /\ k > n
               /\ \A i \in 1..n : /\ applied[k - n + i - 1].payload = fr[i]
                                  /\ applied[k - n + i - 1].entryType = "Invalid"
               /\ \A j \in (k + 1)..Len(applied) :
                     (IsFragmentCall(j) /\ applied[j].payload \in Range(fr)) =>
                        ~(/\ CommittingEntry(j).group = EntryOf(k).group
                          /\ CommittingEntry(j).tid = EntryOf(k).tid)

C5_GroupLsnAscending ==
    \A k, l \in Calls :
        (/\ k < l
         /\ ~IsFragmentCall(k)
         /\ ~IsFragmentCall(l)
         /\ EntryOf(k).group = EntryOf(l).group) =>
            EntryOf(k).lsn < EntryOf(l).lsn

\* C5 amended: the invocations for the Txn and Commit entries of one group are
\* in ascending group-lsn order, and so are those for its Checkpoint entries.
C5_GroupLsnAscendingPerPhase ==
    \A k, l \in Calls :
        (/\ k < l
         /\ EntryOf(k).group = EntryOf(l).group
         /\ \/ IsEntryCall(k) /\ IsEntryCall(l)
            \/ IsCheckpointCall(k) /\ IsCheckpointCall(l)) =>
            EntryOf(k).lsn < EntryOf(l).lsn

\* Apply has returned after applying a checkpoint before a Txn entry of the
\* same group with a smaller lsn.
C5_Witness ==
    /\ pc = "done"
    /\ \E k, l \in Calls :
          /\ k < l
          /\ IsCheckpointCall(k)
          /\ applied[l].entryType = "Txn"
          /\ EntryOf(k).group = EntryOf(l).group
          /\ EntryOf(k).lsn > EntryOf(l).lsn

\* C6: once the callback has returned an error, Apply has panicked at that
\* invocation: it is the last one made.
C6_ApplyErrorAborts ==
    failedAt # 0 => (pc = "panic" /\ Len(applied) = failedAt)

\* The callback failed on an invocation that is not the first, with entries
\* left to apply.
C6_Witness ==
    /\ pc = "panic"
    /\ failedAt > 1
    /\ ei < Len(r.entrys)

\* The replay of file i has ended.
ReplayEnded(i) == fidx > i \/ (fidx = i /\ pc \in {"apply", "done", "fatal"})

\* C7: the replay of a file whose last entry is torn truncates the file to
\* the end of its last complete entry, whatever the file's version, ends with
\* EOF and not with a fatal error, and has every complete entry buffered.
C7_TornFileTruncated ==
    \A i \in 1..Len(files) :
        (ReplayEnded(i) /\ files[i].torn > 0) =>
            /\ fsize[i] = Len(files[i].entries) * TotalSize
            /\ pc # "fatal"
            /\ \A e \in Range(files[i].entries) :
                  \E b \in Range(r.entrys) : b.payload = e.payload

\* ---------------------------------------------------- the claims on the inode

\* C8: a Read that runs while Update repairs the extents sees the extent list
\* as it was before the update or as it is after it: the extents a finished
\* Read has iterated over are one of the lists the inode has had.
C8_ReadSeesOneExtentList ==
    reader.pc = "done" => reader.seen \in hist

\* C9: what a reader of the inode is given has been written to the log
\* before: the size GetFileSize returned is the size of the empty inode or a
\* size that a written log record holds.
C9_LoggedBeforeVisible ==
    got.call = "GetFileSize" =>
        (got.val = 0 \/ \E k \in 1..Len(logRecords) : logRecords[k].size = got.val)

\* C10: after any sequence of Append and Update operations the size of the
\* inode is the sum of the lengths of its extents.
C10_SizeIsSumOfExtentLengths ==
    ipc = "run" => snode.size = Sum(Lengths(Elems(snode)))

\* The bytes of the segment file that extent e holds.
Bytes(e) == e.offset..(e.offset + e.length - 1)

\* C11: with an allocator that hands out no byte of a live extent, after any
\* sequence of Append and Update operations the physical ranges of any two
\* distinct extents of the inode's extent list are disjoint, and every extent
\* lies within what the allocator holds as allocated.
C11_ExtentsDisjoint ==
    ipc = "run" =>
        /\ \A i, j \in 1..snode.len :
              i # j => Bytes(snode.arr[i]) \cap Bytes(snode.arr[j]) = {}
        /\ \A i \in 1..snode.len : Bytes(snode.arr[i]) \subseteq alloc

\* Three operations have left at least three extents, one of them written by
\* an update and one that begins inside a block, cut out of an older extent.
C11_Witness ==
    /\ ipc = "run"
    /\ ops = MaxOps
    /\ snode.len >= 3
    /\ \E i \in 1..snode.len : snode.arr[i].typ = "UPDATE"
    /\ \E i \in 1..snode.len :
          snode.arr[i].typ = "APPEND" /\ snode.arr[i].offset % BlockSize # 0

\* The last operation was an Update of an interior range of the only extent
\* of the inode: it begins after the extent's first byte and ends before its
\* last.
InteriorUpdate ==
    /\ last.op = "Update"
    /\ ~last.panic
    /\ Len(last.before) = 1
    /\ 0 < last.fOffset
    /\ last.fOffset + last.length < last.before[1].length

\* The logical ranges [from, to) that the extents of a list cover, in order.
Coverage(exts) ==
    [i \in 1..Len(exts) |->
        [from |-> Sum(Lengths(SubSeq(exts, 1, i - 1))),
         to |-> Sum(Lengths(SubSeq(exts, 1, i)))]]

\* C12 as stated: an update of an interior range of a single-extent inode
\* leaves exactly three extents, and the range it replaces may be shorter
\* than the bytes written (20 bytes replaced by 30): for every length rlen of
\* the replaced range up to the length n of the new bytes the coverage is
\* [0, fOff), [fOff, fOff + n), [fOff + n, L + n - rlen).
C12_InteriorUpdateThreeExtents ==
    InteriorUpdate =>
        \A rlen \in 1..last.length :
            Coverage(Elems(snode)) =
                << [from |-> 0, to |-> last.fOffset],
                   [from |-> last.fOffset, to |-> last.fOffset + last.length],
                   [from |-> last.fOffset + last.length,
                    to |-> last.before[1].length + last.length - rlen] >>

\* C12 amended: an update of an interior range of a single-extent inode
\* replaces the extent by exactly three extents in list order: the prefix
\* [0, fOff) of the old extent, the new Update extent at the new physical
\* offset, and the suffix of the old extent after the n bytes replaced; the
\* range replaced is as long as the extent written, so the coverage is
\* [0, fOff), [fOff, fOff + n), [fOff + n, L).
C12_InteriorUpdateKeepsLength ==
    InteriorUpdate =>
        LET old == last.before[1]
            exts == Elems(snode)
        IN /\ Len(exts) = 3
           /\ exts[1] = [old EXCEPT !.length = last.fOffset]
           /\ exts[2].typ = "UPDATE"
           /\ exts[2].offset = last.offset
           /\ exts[2].length = last.length
           /\ exts[3].offset = old.offset + last.fOffset + last.length
           /\ exts[3].length = old.length - last.fOffset - last.length
           /\ Coverage(exts) =
                << [from |-> 0, to |-> last.fOffset],
                   [from |-> last.fOffset, to |-> last.fOffset + last.length],
                   [from |-> last.fOffset + last.length, to |-> old.length] >>

C12_Witness == InteriorUpdate /\ ipc = "run" /\ snode.len = 3

\* The bytes of the segment file that a Read has read, in the order read.
RECURSIVE ReadBytes(_)
ReadBytes(reads) ==
    IF reads = <<>> THEN <<>>
    ELSE [k \in 1..Head(reads).length |-> Head(reads).offset + k - 1]
         \o ReadBytes(Tail(reads))

\* A Read that began after the last operation on the inode and has ended.
FullRead == reader.pc \in {"done", "panic"} /\ reader.at = ops /\ ~last.panic

\* C13: after any sequence of Append and Update operations a full Read
\* completes without failure and returns the live bytes of every extent in
\* list order: it does not panic, it reads nothing twice, and when the last
\* operation is an Update whose bytes fill the extent written, it reads every
\* byte of that extent.
C13_FullReadReturnsAllExtents ==
    FullRead =>
        /\ reader.pc = "done"
        /\ \A i, j \in 1..Len(ReadBytes(reader.reads)) :
              i # j => ReadBytes(reader.reads)[i] # ReadBytes(reader.reads)[j]
        /\ (last.op = "Update" /\ last.dlen = last.length) =>
              \A b \in last.offset..(last.offset + last.length - 1) :
                  b \in Range(ReadBytes(reader.reads))

\* RemoveInode has returned nil and nothing has been done to the inode since.
JustRemoved ==
    logger.removed /\ logger.rops = ops /\ logger.pc = "idle" /\ logger.caller = "remove"

\* C14: after a successful remove of an inode its state is Removed, a log
\* record with the state Removed has been written, and every data extent of
\* the inode and the log extent it held before the removal are no longer
\* allocated.
C14_RemoveFreesEverything ==
    JustRemoved =>
        /\ snode.state = "REMOVE"
        /\ \E k \in 1..Len(logRecords) : logRecords[k].state = "REMOVE"
        /\ logger.prev.length > 0 => logger.prev \notin logAlloc
        /\ \A i \in 1..snode.len : Bytes(snode.arr[i]) \cap alloc = {}

\* -------------------------------------------------- the claims on the schema

\* The last call is a Clone of a schema whose last change was a Finalize that
\* returned nil.
CloneOfFinalized == sres.op = "Clone" /\ finalized

\* C15: for every schema built by add-column operations and finalized, reading
\* back the bytes of Marshal (ReadFrom, and so Clone) gives a schema equal to
\* it in every serialized field (view, constraint, unique_index and
\* secondary_index included) and in the derived name index, sort key and
\* physical-address key.
C15_RoundTripEqual ==
    CloneOfFinalized => (sres.err = "nil" /\ cloned = <<schema>>)

\* C16: in every reachable state of the schema, after add-column operations
\* that were accepted or rejected, the names of the columns in the column list
\* are pairwise distinct and the index stored in each column is its position
\* in the list.
C16_NamesDistinctIdxIsPosition ==
    \A i, j \in 1..Len(schema.ColDefs) :
        /\ schema.ColDefs[i].Idx = i - 1
        /\ i # j => schema.ColDefs[i].Name # schema.ColDefs[j].Name

\* The positions of the sort-key columns of s, and of its physical-address
\* columns.
SortKeyColumns(s) == {i \in 1..Len(s.ColDefs) : s.ColDefs[i].SortKey}
PhyAddrColumns(s) == {i \in 1..Len(s.ColDefs) : s.ColDefs[i].PhyAddr}

\* No add-column operation on s was rejected: its names are pairwise distinct.
DistinctNames(s) ==
    \A i, j \in 1..Len(s.ColDefs) : i # j => s.ColDefs[i].Name # s.ColDefs[j].Name

\* C17: Finalize of a schema with more than one sort-key column is rejected
\* by returning ConstraintViolation; it never panics.
C17_MultipleSortKeysRejected ==
    (/\ sres.op = "Finalize"
     /\ DistinctNames(sres.before)
     /\ Cardinality(SortKeyColumns(sres.before)) > 1)
        => sres.err = "ConstraintViolation"

\* The last call is an add-column operation that was rejected: AppendColDef
\* found the name in the name index.
AddRejected ==
    sres.op \in {"AppendCol", "AppendSortKey", "AppendPKCol"} /\ sres.err # "nil"

\* The last call is a Finalize whose validation met a duplicate name: the
\* list it received holds a name twice and no physical-address key was set,
\* so that the name check is the first check of its loop that fails.
FinalizeMetDuplicate ==
    /\ sres.op = "Finalize"
    /\ ~DistinctNames(sres.before)
    /\ sres.before.PhyAddrKey = NilColDef

\* C18: every rejection of a duplicate column name is reported as
\* ConstraintViolation, when AppendColDef detects it at add time and when
\* Finalize detects it in its validation of the names.
C18_DuplicateIsConstraintViolation ==
    (AddRejected \/ FinalizeMetDuplicate) => sres.err = "ConstraintViolation"

\* The last call is a Finalize(false) that returned nil, on a schema without
\* a physical-address column.
FinalizedWithPhyAddr ==
    /\ sres.op = "Finalize"
    /\ sres.err = "nil"
    /\ ~sres.withoutPhyAddr
    /\ PhyAddrColumns(sres.before) = {}

\* After a successful Finalize(false): one physical-address column, the last
\* one, hidden and not nullable, PhyAddrKey refers to it, and SortKey is set
\* iff there is a sort-key column.
PhyAddrAppended ==
    LET n == Len(schema.ColDefs)
    IN /\ PhyAddrColumns(schema) = {n}
       /\ schema.ColDefs[n].Hidden
       /\ ~schema.ColDefs[n].NullAbility
       /\ schema.PhyAddrKey = schema.ColDefs[n].Idx
       /\ schema.SortKey.nil <=> SortKeyColumns(schema) = {}

\* C19: after any sequence of add-column and Finalize calls the schema has at
\* most one physical-address column and at most one sort key; after a
\* successful Finalize(false) on a schema without a physical-address column
\* there is exactly one, it is the last column, hidden and not nullable,
\* PhyAddrKey refers to it, and SortKey is set iff a sort-key column exists.
C19_OnePhyAddrOneSortKey ==
    /\ Cardinality(PhyAddrColumns(schema)) <= 1
    /\ Len(schema.SortKey.Defs) <= 1
    /\ FinalizedWithPhyAddr => PhyAddrAppended

\* s has a single sort-key column and its sort index is not 0.
SingleBadSortKey(s) ==
    \E i \in 1..Len(s.ColDefs) :
        SortKeyColumns(s) = {i} /\ s.ColDefs[i].SortIdx # 0

\* C20: Finalize of a schema whose single sort-key column has a sort index
\* other than 0 fails with ConstraintViolation and leaves SortKey unset.
C20_BadSortIdxRejected ==
    (sres.op = "Finalize" /\ SingleBadSortKey(sres.before))
        => (sres.err = "ConstraintViolation" /\ schema.SortKey.nil)

\* ------------------------------------------ the claims on the column's files

\* C21: an I/O error of the segment read propagates unchanged to the caller
\* of the data file's Read: whenever BlockFile.Read returns an error that is
\* not nil, dataFile.Read returns that error.
C21_ReadErrorPropagates ==
    (dres.op = "Read" /\ dres.inner.err # "nil") => dres.err = dres.inner.err

RECURSIVE Concat(_)
Concat(bufs) == IF bufs = <<>> THEN <<>> ELSE Head(bufs) \o Concat(Tail(bufs))

\* C22: writes to an updates or deletes file accumulate: after the writes
\* w1..wn the size reported is the sum of their lengths, and a Read of that
\* many bytes returns their concatenation.
C22_WritesAccumulate ==
    df.kind \in {"updates", "deletes"} =>
        /\ df.stat.size = Len(Concat(written))
        /\ (dres.op = "Read" /\ dres.n = Len(Concat(written)))
               => dres.data = Concat(written)

\* ------------------------------------------- more claims on the inode

\* The last operation is an Update whose logical offset is at or beyond the
\* end of the inode's logical bytes, the sum of its extent lengths.
OutOfRangeUpdate ==
    last.op = "Update" /\ last.fOffset >= Sum(Lengths(last.before))

\* C23: an Update whose logical offset lies at or beyond the end of the
\* inode's logical byte stream is rejected with InvalidInput and leaves the
\* extent list unchanged; it does not crash.
C23_OutOfRangeUpdateRejected ==
    OutOfRangeUpdate =>
        /\ ~last.panic
        /\ last.err = "InvalidInput"
        /\ Elems(snode) = last.before

\* --------------------------------------------- more claims on the replayer

\* C24: replay is deterministic: two replays of the same log, each into a
\* fresh replayer, invoke the apply callback with the same payloads and
\* arguments in the same order.
C24_ReplayDeterministic ==
    (pc = "done" /\ runs # <<>>) => applied = runs[1]

\* The payloads of the Checkpoint entries of the log, in log order.
CheckpointsInLog ==
    LET cs == SelectSeq(Log, LAMBDA e : e.typ = "Checkpoint")
    IN [i \in 1..Len(cs) |-> cs[i].payload]

\* C25: Apply invokes the callback for all buffered Checkpoint entries, in
\* log order, before it invokes it for any Txn, Commit or Uncommitted payload.
C25_CheckpointsFirst ==
    /\ \A k \in Calls :
          k <= Len(CheckpointsInLog) => applied[k].payload = CheckpointsInLog[k]
    /\ \A k \in Calls :
          ~IsCheckpointCall(k) =>
              /\ k > Len(r.checkpoints)
              /\ Len(r.checkpoints) = Len(CheckpointsInLog)

\* Apply has returned after two checkpoints and an entry that stands before
\* them in the log.
C25_Witness ==
    /\ pc = "done"
    /\ Len(CheckpointsInLog) = 2
    /\ \E k, l \in Calls :
          /\ IsCheckpointCall(k)
          /\ ~IsCheckpointCall(l)
          /\ applied[l].payload < applied[k].payload

\* The replay of file i has met a malformed entry: the payload it reads is
\* shorter than the entry declares, and the end the handler expects is not
\* the durable end of the file.
Malformed(i) ==
    /\ files[i].torn > MetaSize + InfoSize
    /\ ReplayEnded(i)

\* The complete entries of the files up to file i.
EntriesUpTo(i) == FlattenSeq([j \in 1..i |-> files[j].entries])

\* C26: when the replay of a file meets a malformed entry (the payload length
\* does not match and the expected end is not the file's durable end), the
\* file is truncated at the end of its last well-formed entry and only the
\* replay of that file stops: the entries buffered from this file and from
\* the earlier files are kept, and Apply applies them.
C26_MalformedEntryTruncatesTail ==
    \A i \in 1..Len(files) :
        Malformed(i) =>
            /\ fsize[i] = Len(files[i].entries) * TotalSize
            /\ pc \notin {"fatal", "panic"} \/ failedAt # 0
            /\ \A e \in Range(EntriesUpTo(i)) :
                  /\ \E b \in Range(r.entrys) : b.payload = e.payload
                  /\ pc = "done" => \E k \in Calls : applied[k].payload = e.payload

\* ------------------------------------------- the claims on extent repair

\* The logical offset at which extent k of a list begins.
StartOf(exts, k) == Sum(Lengths(SubSeq(exts, 1, k - 1)))

\* The last operation was an Update that begins at the first byte of extent k
\* of the list before it and is exactly as long as that extent.
ExactCover(k) ==
    /\ last.op = "Update"
    /\ k \in 1..Len(last.before)
    /\ last.before[k].length = last.length
    /\ StartOf(last.before, k) = last.fOffset

\* C27: an update that begins at the first byte of an extent E_k and is
\* exactly as long as E_k changes E_k's type to UPDATE and its offset to the
\* new offset and nothing else: the number and order of the extents, every
\* other extent and E_k's length are as before, and the ranges to free are
\* the one range (old offset of E_k, length of the update).
C27_ExactCoverReplacesInPlace ==
    \A k \in 1..Len(last.before) :
        ExactCover(k) =>
            /\ ~last.panic
            /\ Elems(snode) =
                  [last.before EXCEPT ![k].typ = "UPDATE", ![k].offset = last.offset]
            /\ last.free = <<FreeRange(last.before[k].offset, last.length)>>

\* An update has covered exactly the second of two APPEND extents.
C27_Witness ==
    /\ ExactCover(2)
    /\ Len(last.before) = 2
    /\ last.before[2].typ = "APPEND"
    /\ last.before[2].offset # last.offset

\* The last operation was an Update that begins inside extent k of the list
\* before it and ends after that extent's last byte.
Spanning(k) ==
    /\ last.op = "Update"
    /\ k \in 1..Len(last.before)
    /\ StartOf(last.before, k) <= last.fOffset
    /\ last.fOffset < StartOf(last.before, k + 1)
    /\ last.fOffset + last.length > StartOf(last.before, k + 1)

\* The bytes of extent j of exts that lie in the logical range [from, to).
CoveredOf(exts, j, from, to) ==
    LET lo == IF StartOf(exts, j) > from THEN StartOf(exts, j) ELSE from
        hi == Min(StartOf(exts, j + 1), to)
    IN IF hi > lo THEN hi - lo ELSE 0

\* What is left of extent j of exts, which follows the extent the update
\* begins in, when the update ends at logical offset `to`.
LeftOf(exts, j, to) ==
    LET n == CoveredOf(exts, j, 0, to)
    IN IF StartOf(exts, j + 1) <= to THEN <<>>
       ELSE << [exts[j] EXCEPT !.offset = @ + n, !.length = @ - n] >>

\* The extent list after the repair of an update that spans from extent k on.
Spanned(exts, k, fOffset, length, offset) ==
    SubSeq(exts, 1, k - 1)
    \o << [exts[k] EXCEPT !.length = fOffset - StartOf(exts, k)],
          [ZeroExtent EXCEPT !.typ = "UPDATE", !.offset = offset, !.length = length] >>
    \o FlattenSeq([j \in 1..(Len(exts) - k) |-> LeftOf(exts, k + j, fOffset + length)])

WithinStream ==
    last.op = "Update" /\ last.fOffset + last.length <= Sum(Lengths(last.before))

Replaced ==
    Min(last.length, Sum(Lengths(last.before)) - last.fOffset)

\* The physical bytes that the extents of a list hold.
AllBytes(exts) == UNION {Bytes(exts[i]) : i \in 1..Len(exts)}

\* C29: the ranges that extent repair returns to be freed are the physical
\* bytes of the old extents that the update replaced: they are pairwise
\* disjoint, each lies inside an extent the inode held before the repair,
\* none overlaps an extent of the list after the repair, and their lengths
\* add up to the number of old logical bytes replaced.
C29_FreedAreTheReplacedBytes ==
    (last.op = "Update" /\ ~last.panic) =>
        /\ \A i, j \in 1..Len(last.free) :
              i # j => Bytes(last.free[i]) \cap Bytes(last.free[j]) = {}
        /\ \A i \in 1..Len(last.free) :
              /\ \E j \in 1..Len(last.before) :
                    Bytes(last.free[i]) \subseteq Bytes(last.before[j])
              /\ \A j \in 1..snode.len :
                    Bytes(last.free[i]) \cap Bytes(snode.arr[j]) = {}
        /\ Sum(Lengths(last.free)) = Replaced
        /\ AllBytes(last.free) = AllBytes(last.before) \ AllBytes(Elems(snode))

\* An update that began inside one extent and ended inside the next has
\* returned two ranges.
C29_Witness ==
    /\ last.op = "Update"
    /\ ~last.panic
    /\ last.fOffset > 0
    /\ Len(last.free) = 2
    /\ last.free[1].length > 0
    /\ last.free[2].length > 0
    /\ snode.len = 3

\* ----------------------------------------------- more claims on the log

\* C30: Log.Append allocates the new log extent first, writes the record
\* second and frees the previous log extent third; when the allocator cannot
\* satisfy the request it fails with OutOfSpace without writing, and on any
\* failure the previous log extent is neither freed nor replaced in the inode.
C30_AllocateWriteFree ==
    logger.ret # "none" =>
        /\ logger.full =>
              /\ logger.ret = "OutOfSpace"
              /\ Len(logRecords) = logger.before.records
        /\ logger.ret # "nil" =>
              /\ snode.logExtents = logger.before.logExtents
              /\ logger.before.held => logger.before.logExtents \in logAlloc
        /\ (logger.ret = "nil" /\ logger.before.held) =>
              /\ snode.logExtents # logger.before.logExtents
              /\ logger.before.logExtents \notin logAlloc

\* ------------------------------------------ the last claims on the replayer

\* The group-lsns of the entries of group g that the scan of the log's one
\* file has read so far.
ScannedLsns(g) ==
    {Log[i].lsn : i \in {j \in 1..Len(Log) : j <= fpos \div TotalSize /\ Log[j].group = g}}

MaxOf(ns) == IF ns = {} THEN 0 ELSE CHOOSE n \in ns : \A m \in ns : m <= n

\* C31: during the scan the recorded maximum lsn of a group is the largest
\* group-lsn among the entries of that group scanned so far, of every entry
\* kind (Flush, Checkpoint, Uncommitted, Txn, Commit): it never decreases, and
\* after the scan it is the largest group-lsn of the group in the log.
C31_GroupLsnIsMaximum ==
    (pc \in {"replay", "apply", "done"} /\ Len(files) = 1) =>
        \A g \in Groups : r.groupLSN[g] = MaxOf(ScannedLsns(g))

\* Invocation k hands the callback the group and group-lsn of entry e, as
\* its arguments or in the info it passes along.
CarriesGroupLsn(k, e) ==
    IF applied[k].info.nil
    THEN applied[k].group = e.group /\ applied[k].commitId = e.lsn
    ELSE \/ applied[k].group = e.group /\ applied[k].commitId = e.lsn
         \/ applied[k].info.Group = e.group /\ applied[k].info.GroupLSN = e.lsn

\* C32: every invocation of the apply callback receives the group, the
\* group-lsn and the entry kind of the log entry whose payload it carries,
\* the invocations for Checkpoint entries and for Uncommitted fragments
\* included.
C32_InvocationCarriesEntry ==
    \A k \in Calls :
        /\ CarriesGroupLsn(k, EntryOf(k))
        /\ applied[k].entryType = EntryOf(k).typ

\* ----------------------------------------------- the last claims on the log

\* C33: after any sequence of Log.Append calls for the inode, those whose
\* write fails included, the log extents allocated and not freed are the one
\* extent recorded in the inode's logExtents: none is leaked and none is
\* freed while it is recorded.
C33_OnlyTheRecordedLogExtent ==
    (logger.pc = "idle" /\ snode.state = "RESIDENT") =>
        logAlloc = IF snode.logExtents.length > 0 THEN {snode.logExtents} ELSE {}

\* C34: every record that Log.Append writes is self-consistent, also when
\* Append or Update on the inode runs along with Log.Append: its count field
\* is the number of extent triples that follow it, and its size field is the
\* size of the inode image the extents were taken from.
C34_RecordsSelfConsistent ==
    /\ \A k \in 1..Len(logRecords) :
          logRecords[k].count = Len(logRecords[k].extents)
    /\ (logger.pc \in {"idle", "free"} /\ logger.ret = "nil") =>
          logRecords[Len(logRecords)].size = logger.img

\* The Log.Append that RemoveInode called has failed and RemoveInode has
\* returned its error.
RemoveFailed ==
    logger.caller = "remove" /\ logger.pc = "idle" /\ logger.ret = "EIO"

\* C35: when the log append inside RemoveInode fails, RemoveInode returns the
\* error and the inode is unchanged: its state is still Resident and its log
\* extent is neither freed nor replaced.
C35_FailedRemoveLeavesInode ==
    RemoveFailed =>
        /\ snode.state = "RESIDENT"
        /\ snode.logExtents = logger.before.logExtents
        /\ logger.before.held => logger.before.logExtents \in logAlloc

\* C36: within one Apply, every buffered Uncommitted payload is passed to
\* the callback at most once for each participating group, also when several
\* Txn entries of the log carry the same (group, txn-id).
C36_FragmentOncePerGroup ==
    \A k, l \in Calls :
        (/\ k < l
         /\ IsFragmentCall(k)
         /\ IsFragmentCall(l)
         /\ applied[k].payload = applied[l].payload) =>
            CommittingEntry(k).group # CommittingEntry(l).group

\* --------------------------------------------- the last claims on the inode

\* C37: after any sequence of Append and Update operations with data that is
\* not empty, no extent of the inode's extent list has the length zero.
C37_NoEmptyExtent ==
    ipc = "run" => \A i \in 1..snode.len : snode.arr[i].length > 0

\* ------------------------------------------ the last claim on the handler

\* The replay of the file goes on behind an entry whose payload is cut short:
\* the handler has returned nil for it.
PastMalformedEntry ==
    /\ pc = "replay"
    /\ files[fidx].torn > MetaSize + InfoSize
    /\ fpos > Len(files[fidx].entries) * TotalSize

\* C38: replayHandler surfaces a failed truncation in every truncation path:
\* when Truncate fails in the payload-length-mismatch path the handler does
\* not return nil, so that the caller does not go on with the replay as if
\* the entry had been handled.
C38_TruncateFailureSurfaced == ~PastMalformedEntry

\* ---------------------------------------- the last claim on the column's files

\* C39: whenever dataFile.Write returns a nil error it returns n = len(buf),
\* with the buffer in memory and with a segment file alike, and Stat then
\* reports the size and the original size of the stream written.
C39_WriteReturnsLength ==
    (dres.op = "Write" /\ dres.err = "nil") =>
        /\ dres.n = Len(written[Len(written)])
        /\ IF df.file
           THEN df.stat.size = snode.size /\ df.stat.originSize = snode.originSize
           ELSE df.stat.size = Len(df.buf) /\ df.stat.originSize = Len(df.buf)

\* ------------------------------------------------ the last claim on the log

\* A Log.Append has just written a record into an extent it was given.
JustLogged ==
    /\ logger.pc \in {"idle", "free"}
    /\ logger.ret = "nil"
    /\ ~logger.full

\* C40: the length that Log.Append requests from the allocator is the
\* smallest multiple of the block size that is at least the length of the
\* serialized record: a record whose length is a multiple of the block size
\* gets no extra block. The extent the inode records is of that length.
C40_NoExtraBlock ==
    JustLogged =>
        snode.logExtents.length =
            p2roundup(logRecords[Len(logRecords)].length, BlockSize)

====
